---- MODULE Spec2Model ----
(***************************************************************************)
(* please_sandbox: the namespace sandbox of tools/sandbox.                 *)
(*                                                                         *)
(* Two programs are modelled:                                              *)
(*   prog = "sandbox_c": contain() of tools/sandbox/sandbox.c, which       *)
(*       clones a child into new namespaces, runs contain_child in it and  *)
(*       waits for it in the parent; it is called directly with net and    *)
(*       mount, or by main of tools/sandbox/nonet_main.c;                  *)
(*   prog = "main_c": the self-contained front end tools/sandbox/main.c,   *)
(*       whose contain() unshares the calling process and execs in place.  *)
(*                                                                         *)
(* C strings are sequences of one-character strings.  Every system call    *)
(* may succeed or fail; the outcome is drawn with \E in the action.        *)
(***************************************************************************)
EXTENDS Integers, Sequences, FiniteSets, TLC

\* ------------------------------------------------------------- bounds
\* Target exit codes explored are 0..MaxExitCode and 255.
MaxExitCode == 3
\* The rewriters on their own: names of at most MaxNameLen characters,
\* directories of at most MaxDirLen, arrays of at most MaxEnvLen entries.
MaxNameLen == 3
MaxDirLen == 2
MaxEnvLen == 2

\* ------------------------------------------------------------ strings
INNER_TMP == <<"/", "t", "m", "p", "/", "p", "l", "z", "_", "s", "a", "n", "d", "b", "o", "x">>
SLASH_TMP == <<"/", "t", "m", "p">>
SLASH_TMP_SLASH == <<"/", "t", "m", "p", "/">>
ROOT == <<"/">>
SLASH_PROC == <<"/", "p", "r", "o", "c">>
SLASH_DEV == <<"/", "d", "e", "v">>
N_TMP_DIR == <<"T", "M", "P", "_", "D", "I", "R">>
N_TMPDIR == <<"T", "M", "P", "D", "I", "R">>
N_TEST_DIR == <<"T", "E", "S", "T", "_", "D", "I", "R">>
N_HOME == <<"H", "O", "M", "E">>
N_SANDBOX_DIRS == <<"S", "A", "N", "D", "B", "O", "X", "_", "D", "I", "R", "S">>

\* Inputs: an outer TMP_DIR outside /tmp, one under /tmp/, a variable whose
\* value lies under the outer TMP_DIR, programs to run, SANDBOX_DIRS values.
OUTER_W == <<"/", "w">>
OUTER_TMPW == <<"/", "t", "m", "p", "/", "w">>
E_R == <<"R", "=", "/", "w", "/", "r">>
ARG_BIN == <<"/", "w", "/", "t">>
ARG_SH == <<"/", "s", "h">>
DIRS_ONE == <<"/", "e">>
DIRS_TWO == <<"/", "n", ",", ",", "/", "e">>
N_SHARE_NETWORK == <<"S", "H", "A", "R", "E", "_", "N", "E", "T", "W", "O", "R", "K">>
N_SHARE_MOUNT == <<"S", "H", "A", "R", "E", "_", "M", "O", "U", "N", "T">>
E_HOME == <<"H", "O", "M", "E", "=", "/", "h">>
E_PLAIN == <<"h", "a", "m">>

NUL == "\\0"

\* ------------------------------------------------- libc string helpers
\* The character at 1-based position i of a C string; the terminator after
\* the last character.
CharAt(s, i) == IF i <= Len(s) THEN s[i] ELSE NUL

Min(a, b) == IF a <= b THEN a ELSE b

\* strncmp(a, b, n) == 0: the comparison stops at the first difference, at a
\* terminator, or after n characters.
strncmp_eq(a, b, n) ==
    \A i \in 1..Min(n, Min(Len(a), Len(b)) + 1) : CharAt(a, i) = CharAt(b, i)

\* s + off for a char pointer s.
Ptr(s, off) == SubSeq(s, off + 1, Len(s))

\* strchr(s, c): the 0-based offset of the first c in s, or -1.
strchr(s, c) ==
    IF \E i \in 1..Len(s) : s[i] = c
    THEN (CHOOSE i \in 1..Len(s) : s[i] = c /\ \A j \in 1..(i - 1) : s[j] # c) - 1
    ELSE -1

\* A tokenizer that returns the empty fields as well.
RECURSIVE strtok_KeepEmpty(_)
strtok_KeepEmpty(s) ==
    LET c == IF \E i \in 1..Len(s) : s[i] = ","
             THEN (CHOOSE i \in 1..Len(s) : s[i] = "," /\ \A j \in 1..(i - 1) : s[j] # ",") - 1
             ELSE -1
    IN  IF c = -1 THEN <<s>>
        ELSE <<SubSeq(s, 1, c)>> \o strtok_KeepEmpty(SubSeq(s, c + 2, Len(s)))

\* The tokens strtok(s, ",") yields, in order: the maximal runs of
\* characters other than the delimiter.
RECURSIVE strtok(_)
strtok(s) ==
    IF s = <<>> THEN <<>>
    ELSE IF Head(s) = "," THEN strtok(Tail(s))
    ELSE LET c == strchr(s, ",")
             n == IF c = -1 THEN Len(s) ELSE c
         IN  <<SubSeq(s, 1, n)>> \o strtok(Ptr(s, n))

\* ---------------------------------------------------------- environ
Entry(name, value) == name \o <<"=">> \o value

IsVar(e, name) == Len(e) > Len(name)
                  /\ SubSeq(e, 1, Len(name)) = name
                  /\ e[Len(name) + 1] = "="

HasEnv(e, name) == \E i \in 1..Len(e) : IsVar(e[i], name)

EnvIndex(e, name) ==
    CHOOSE i \in 1..Len(e) : IsVar(e[i], name) /\ \A j \in 1..(i - 1) : ~IsVar(e[j], name)

\* getenv(name) when the variable is present: the text after "NAME=".
getenv(e, name) == Ptr(e[EnvIndex(e, name)], Len(name) + 1)

\* setenv(name, value, 1)
setenv(e, name, value) ==
    IF HasEnv(e, name)
    THEN [e EXCEPT ![EnvIndex(e, name)] = Entry(name, value)]
    ELSE Append(e, Entry(name, value))

\* unsetenv(name)
unsetenv(e, name) == SelectSeq(e, LAMBDA x : ~IsVar(x, name))

\* ------------------------------------------------------ char buffers
\* A byte malloc has not initialised.
GARBAGE == "?"

\* malloc(n): n bytes, none of them written yet.
malloc(n) == [i \in 1..n |-> GARBAGE]

\* strncpy(dest + at, src, n): exactly n bytes are written, those of src and
\* then terminators if src is shorter.
strncpy(dest, at, src, n) ==
    [i \in 1..Len(dest) |->
        IF i > at /\ i <= at + n THEN CharAt(src, i - at) ELSE dest[i]]

\* A copy that leaves the terminator out.
strcpy_NoNul(dest, at, src) ==
    [i \in 1..Len(dest) |->
        IF i > at /\ i <= at + Len(src) THEN src[i - at] ELSE dest[i]]

\* strcpy(dest + at, src): the bytes of src and its terminator.
strcpy(dest, at, src) ==
    [i \in 1..Len(dest) |->
        IF i > at /\ i <= at + Len(src) + 1 THEN CharAt(src, i - at) ELSE dest[i]]

\* The C string a buffer holds: the bytes before its first terminator.
CStr(buf) ==
    IF \E i \in 1..Len(buf) : buf[i] = NUL
    THEN SubSeq(buf, 1, (CHOOSE i \in 1..Len(buf) :
                            buf[i] = NUL /\ \A j \in 1..(i - 1) : buf[j] # NUL) - 1)
    ELSE buf

\* ------------------------------------------------------ path rewriter
\* A change_path without the strncmp test.
change_path_NoCompare(old_name, old_dir, new_dir, prefix_len) ==
    SubSeq(old_name, 1, prefix_len) \o new_dir
    \o (IF prefix_len + Len(old_dir) <= Len(old_name)
        THEN Ptr(old_name, prefix_len + Len(old_dir)) ELSE <<>>)

change_path(old_name, old_dir, new_dir, prefix_len) ==
    IF ~strncmp_eq(old_dir, Ptr(old_name, prefix_len), Len(old_dir))
    THEN old_name
    ELSE LET new_len == Len(new_dir) + Len(old_name) - Len(old_dir) + 1
             b0 == malloc(new_len + 1)
             b1 == strncpy(b0, 0, old_name, prefix_len)
             b2 == strcpy(b1, prefix_len, new_dir)
             b3 == strcpy(b2, prefix_len + Len(new_dir),
                          Ptr(old_name, prefix_len + Len(old_dir)))
             b4 == [b3 EXCEPT ![new_len + 1] = NUL]
         IN  CStr(b4)

\* An exec_name that writes the new directory and loses what followed the
\* old one.
exec_name_NoRest(old_name, old_dir, new_dir) ==
    IF change_path(old_name, old_dir, new_dir, 0) = old_name THEN old_name ELSE new_dir

exec_name(old_name, old_dir, new_dir) == change_path(old_name, old_dir, new_dir, 0)

\* A change_env_vars that hands over the offset of the "=" itself.
change_env_vars_AtEquals(e, old_dir, new_dir) ==
    [i \in 1..Len(e) |->
        LET equals == strchr(e[i], "=")
        IN  IF equals # -1
            THEN change_path(e[i], old_dir, new_dir, equals)
            ELSE e[i]]

change_env_vars(e, old_dir, new_dir) ==
    [i \in 1..Len(e) |->
        LET equals == strchr(e[i], "=")
        IN  IF equals # -1
            THEN change_path(e[i], old_dir, new_dir, equals + 1)
            ELSE e[i]]

\* ------------------------------------------------------- wait status
\* The status word waitpid stores: exit code in bits 8..15, terminating
\* signal in bits 0..6, core flag in bit 7.
W_EXITCODE(ret, sig) == (ret % 256) * 256 + sig
WIFEXITED(st) == (st % 128) = 0
WEXITSTATUS(st) == (st \div 256) % 256
WIFSIGNALED(st) == (st % 128) \in 1..126
WTERMSIG(st) == st % 128

ExitCodes == (0..MaxExitCode) \cup {255}
\* Wait statuses of a signal-terminated child: SIGKILL, SIGSEGV, SIGSEGV
\* with a core dump.
SignalStatuses == {9, 11, 11 + 128}

\* ------------------------------------------------------- mount table
\* A mount: what is mounted where, read-only or not, its propagation, and
\* (for a bind mount) the index of the mount that held the source.
Mount(src, target, fstype, ro, backing) ==
    [src |-> src, target |-> target, fstype |-> fstype, ro |-> ro,
     prop |-> "private", backing |-> backing]

InitialMounts ==
    << [src |-> <<"r">>, target |-> ROOT, fstype |-> "ext4", ro |-> FALSE,
        prop |-> "shared", backing |-> 0],
       [src |-> <<"d">>, target |-> SLASH_DEV, fstype |-> "devtmpfs", ro |-> FALSE,
        prop |-> "shared", backing |-> 0] >>

\* path lies in the tree under mountpoint t.
Under(path, t) ==
    \/ t = ROOT
    \/ path = t
    \/ Len(path) > Len(t) /\ SubSeq(path, 1, Len(t)) = t /\ path[Len(t) + 1] = "/"

\* The mount a path resolves into: the latest mount whose mountpoint is the
\* longest one over the path.
MountOf(m, path) ==
    CHOOSE i \in 1..Len(m) :
        /\ Under(path, m[i].target)
        /\ \A j \in 1..Len(m) :
              Under(path, m[j].target) =>
                 \/ Len(m[j].target) < Len(m[i].target)
                 \/ Len(m[j].target) = Len(m[i].target) /\ j <= i

\* A remount of "/" that leaves the propagation as it was.
MakeRPrivate_Nothing(m) == m

\* mount("none", "/", NULL, MS_REC | MS_PRIVATE, NULL)
MakeRPrivate(m) == [i \in 1..Len(m) |-> [m[i] EXCEPT !.prop = "private"]]

\* mount("tmpfs", target, "tmpfs", flags, NULL)
MountTmpfsAt(m, target, ro) == Append(m, Mount(<<"t">>, target, "tmpfs", ro, 0))

\* mount(dir, d, "", MS_BIND, NULL): the new mount takes the read-only flag
\* of the mount the source lives in.
BindMount(m, dir, d) ==
    Append(m, Mount(dir, d, "bind", m[MountOf(m, dir)].ro, MountOf(m, dir)))

\* A remount whose flags lack MS_RDONLY.
RemountReadOnly_Nothing(m, target) == m

\* mount("none", "/", NULL, MS_REMOUNT | MS_RDONLY | MS_BIND, NULL): only the
\* mount at the given mountpoint changes; the call does not recurse.
RemountReadOnly(m, target) ==
    [m EXCEPT ![MountOf(m, target)].ro = TRUE]

\* mount("proc", "/proc", "proc", 0, NULL)
MountProcfs(m) == Append(m, Mount(<<"p">>, SLASH_PROC, "proc", FALSE, 0))

\* ------------------------------------------------------------- state
VARIABLES
    prog,        \* which program runs: "sandbox_c" or "main_c"
    inp,         \* the invocation: net and mount as contain receives them,
                 \* the command, environ, cwd, ids
    ppc,         \* position of the invoked process
    cpc,         \* position of the cloned child ("none" before clone)
    result,      \* value contain returned (-1: none yet)
    cloneFlags,  \* flags given to clone(2) ({} before the call)
    pns,         \* namespace kinds the invoked process has left behind
    cns,         \* namespace kinds that are new for the child
    status,      \* contain's local int status
    childStatus, \* wait status of the terminated child (-1: alive)
    selfSig,     \* signal the parent sent itself (0: none)
    env,         \* environ of the process doing the setup
    argv,        \* its argv
    cwd,         \* its working directory
    mounts,      \* mount table of its mount namespace
    netcfg,      \* lo / address / route state of its network namespace
    pdeathsig,   \* parent-death signal of the child (0: none)
    idmaps,      \* what was printed to setgroups, uid_map, gid_map
    tokens,      \* SANDBOX_DIRS tokens strtok has yet to return
    ops,         \* history: every setup call attempted, with its outcome
    stderr,      \* history: diagnostics written
    call,        \* a call of the rewriters on its own: arguments and result
    creds        \* please_contain's child: dumpable flag, real, effective and
                 \* saved uid and gid

vars == <<prog, inp, ppc, cpc, result, cloneFlags, pns, cns, status, childStatus,
          selfSig, env, argv, cwd, mounts, netcfg, pdeathsig, idmaps, tokens,
          ops, stderr, call, creds>>

\* What the sandbox's steps never write.
inVars == <<prog, inp, call, creds>>
parentVars == <<ppc, result, status, selfSig, pns>>
cloneVars == <<cloneFlags, cns>>
fsVars == <<env, argv, cwd, mounts, tokens>>
sysVars == <<netcfg, pdeathsig, idmaps>>

NsKinds == {"user", "uts", "ipc", "pid", "net", "mnt"}

\* The namespace kind each CLONE_NEW* flag makes new.
NsOfFlag(f) ==
    CASE f = "CLONE_NEWUSER" -> {"user"}
      [] f = "CLONE_NEWUTS" -> {"uts"}
      [] f = "CLONE_NEWIPC" -> {"ipc"}
      [] f = "CLONE_NEWPID" -> {"pid"}
      [] f = "CLONE_NEWNET" -> {"net"}
      [] f = "CLONE_NEWNS" -> {"mnt"}
      [] OTHER -> {}

NsOfFlags(fl) == UNION {NsOfFlag(f) : f \in fl}

\* ------------------------------------------------------------ inputs
\* sigign: the signals the invoker left ignored or blocked in the process it
\* started (SIGKILL can be neither).
EnvChoices ==
    { tmp \o dirs \o <<E_R, E_HOME, E_PLAIN>> :
        tmp \in {<<>>, <<Entry(N_TMP_DIR, OUTER_W)>>, <<Entry(N_TMP_DIR, OUTER_TMPW)>>,
                 <<Entry(N_TMP_DIR, SLASH_TMP)>>},
        dirs \in {<<>>, <<Entry(N_SANDBOX_DIRS, DIRS_ONE)>>,
                  <<Entry(N_SANDBOX_DIRS, DIRS_TWO)>>} }

\* The environments the front ends are started in: with and without an
\* outer TMP_DIR, and with SHARE_NETWORK and SHARE_MOUNT absent or set.
FrontEnvChoices ==
    { tmp \o sn \o sm \o <<E_R>> :
        tmp \in {<<>>, <<Entry(N_TMP_DIR, OUTER_W)>>, <<Entry(N_TMP_DIR, OUTER_TMPW)>>},
        sn \in {<<>>, <<Entry(N_SHARE_NETWORK, <<"1">>)>>, <<Entry(N_SHARE_NETWORK, <<"0">>)>>},
        sm \in {<<>>, <<Entry(N_SHARE_MOUNT, <<"1">>)>>} }

\* A uid_t or gid_t: 32 bits without sign, kept as two halves of 16 bits
\* (the id is hi * 2^16 + lo).
Id(hi, lo) == [hi |-> hi, lo |-> lo]
ID_USER == Id(0, 1000)

\* Ids getuid and getgid can return: root, an ordinary user, 2^16,
\* 2^31 - 1, 2^31 and 2^32 - 2.
IdChoices ==
    {Id(0, 0), ID_USER, Id(1, 0), Id(32767, 65535), Id(32768, 0), Id(65535, 65534)}

\* front: who calls contain.  "contain": a caller handing net and mount to
\* contain of sandbox.c; "nonet": main of nonet_main.c; "main": main of
\* main.c.  argv is the command (the front end's argv + 1); a front end
\* started with no command has an empty one.
SandboxInputs ==
    [front : {"contain"}, net : BOOLEAN, mount : BOOLEAN,
     argv : {<<ARG_BIN, ARG_BIN>>, <<ARG_SH>>},
     env : EnvChoices, cwd : {OUTER_W, INNER_TMP}, uid : {ID_USER}, gid : {ID_USER},
     sigign : {{}, {11}}]

\* contain called with SANDBOX_DIRS naming TMP_DIR itself.
HideDirInputs ==
    [front : {"contain"}, net : {FALSE}, mount : {TRUE}, argv : {<<ARG_BIN, ARG_BIN>>},
     env : {<<Entry(N_TMP_DIR, OUTER_W), Entry(N_SANDBOX_DIRS, OUTER_W), E_R>>},
     cwd : {OUTER_W}, uid : {ID_USER}, gid : {ID_USER}, sigign : {{}}]

\* contain called by users and groups of every size of id.
IdInputs ==
    [front : {"contain"}, net : {FALSE}, mount : {FALSE}, argv : {<<ARG_SH>>},
     env : {<<E_R>>}, cwd : {OUTER_W}, uid : IdChoices, gid : IdChoices,
     sigign : {{}}]

\* net and mount are not yet decided when nonet's main starts.
NonetInputs ==
    [front : {"nonet"}, net : {FALSE}, mount : {FALSE},
     argv : {<<>>, <<ARG_BIN, ARG_BIN>>},
     env : FrontEnvChoices, cwd : {OUTER_W}, uid : {ID_USER}, gid : {ID_USER},
     sigign : {{}}]

MainInputs ==
    [front : {"main"}, net : {TRUE}, mount : {TRUE},
     argv : {<<>>, <<ARG_BIN>>, <<ARG_SH>>},
     env : EnvChoices \cup FrontEnvChoices, cwd : {OUTER_W, INNER_TMP},
     uid : {ID_USER} \cup {Id(32768, 0)}, gid : {ID_USER}, sigign : {{}}]

NoCall == [fn |-> "none"]

\* Credentials of a process: the dumpable flag and its real, effective and
\* saved ids (0 is root).
Creds(dumpable, ruid, euid, suid, rgid, egid, sgid) ==
    [dumpable |-> dumpable, ruid |-> ruid, euid |-> euid, suid |-> suid,
     rgid |-> rgid, egid |-> egid, sgid |-> sgid]

\* An ordinary user's process.
UserCreds == Creds(1, 1000, 1000, 1000, 100, 100, 100)

Init ==
    /\ prog \in {"sandbox_c", "main_c"}
    /\ inp \in (IF prog = "sandbox_c" THEN SandboxInputs \cup HideDirInputs \cup IdInputs
                                          \cup NonetInputs
                ELSE MainInputs)
    /\ ppc = (IF inp.front = "contain" THEN "contain" ELSE "main")
    /\ cpc = "none"
    /\ result = -1
    /\ cloneFlags = {}
    /\ pns = {}
    /\ cns = {}
    /\ status = 0
    /\ childStatus = -1
    /\ selfSig = 0
    /\ env = inp.env
    /\ argv = inp.argv
    /\ cwd = inp.cwd
    /\ mounts = InitialMounts
    /\ netcfg = [lo_up |-> FALSE, addr |-> FALSE, route |-> FALSE]
    /\ pdeathsig = 0
    /\ idmaps = [setgroups |-> "allow", uid_map |-> <<>>, gid_map |-> <<>>]
    /\ tokens = <<>>
    /\ ops = <<>>
    /\ stderr = <<>>
    /\ call = NoCall
    /\ creds = UserCreds

\* The TMP_DIR pointer mount_tmp reads on entry (dir); it keeps pointing at
\* the original text after the environment is rewritten.
DirSet == HasEnv(inp.env, N_TMP_DIR)
Dir == getenv(inp.env, N_TMP_DIR)
\* A mount_tmp without the check for a TMP_DIR under /tmp/.
DirUnderTmp_Never == FALSE

DirUnderTmp == DirSet /\ strncmp_eq(Dir, SLASH_TMP_SLASH, 5)

\* ------------------------------------------------- sandbox.h: flags
FLAG_SANDBOX_NET == 1
FLAG_SANDBOX_FS == 2

\* The bit is set in the mask (bit is a power of two).
HasBit(flags, bit) == (flags \div bit) % 2 = 1
\* a | b and a & ~b.
BitOr(flags, bit) == IF HasBit(flags, bit) THEN flags ELSE flags + bit
MaskOff(flags, bit) == IF HasBit(flags, bit) THEN flags - bit ELSE flags

FLAG_SANDBOX_ALL == BitOr(FLAG_SANDBOX_NET, FLAG_SANDBOX_FS)

\* contain(argv, flags) as sandbox.h declares it: the features a mask
\* enables.  Network sandboxing iff SANDBOX_NET, file-system sandboxing iff
\* SANDBOX_FS.
SandboxNet(flags) == HasBit(flags, FLAG_SANDBOX_NET)
SandboxFs(flags) == HasBit(flags, FLAG_SANDBOX_FS)

\* ------------------------------------------------------- front ends
\* A front end that forgets the argc test.
ArgcTooSmall_Never(args) == FALSE

\* argc < 2, for a front end whose command (argv + 1) is args.
ArgcTooSmall(args) == Len(args) + 1 < 2

\* A nonet front end that passes every flag.
NonetFlags_All == FLAG_SANDBOX_ALL

\* The mask main of nonet_main.c passes to contain.
NonetFlags == MaskOff(FLAG_SANDBOX_ALL, FLAG_SANDBOX_NET)

\* main of nonet_main.c: the usage message, or contain(&argv[1], flags).
nonet_main ==
    /\ prog = "sandbox_c" /\ inp.front = "nonet" /\ ppc = "main"
    /\ IF ArgcTooSmall(inp.argv)
       THEN /\ ppc' = "returned" /\ result' = 1
            /\ stderr' = stderr \o <<"nonet_sandbox implements limited sandboxing",
                                      "It takes no flags",
                                      "Usage: nonet_sandbox command args...">>
            /\ UNCHANGED inp
       ELSE /\ ppc' = "contain"
            /\ inp' = [inp EXCEPT !.net = SandboxNet(NonetFlags),
                                  !.mount = SandboxFs(NonetFlags)]
            /\ UNCHANGED <<result, stderr>>
    /\ UNCHANGED <<prog, call, creds, status, selfSig, pns, cpc, childStatus, cloneVars,
                   fsVars, sysVars, ops>>

\* main of main.c: the usage message and exit(1), or contain(&argv[1]).
main_main ==
    /\ prog = "main_c" /\ ppc = "main"
    /\ IF ArgcTooSmall(inp.argv)
       THEN /\ ppc' = "returned" /\ result' = 1
            /\ stderr' = stderr \o <<"please_sandbox implements sandboxing for Please.",
                                      "It takes no flags",
                                      "Usage: plz_sandbox command args...">>
       ELSE /\ ppc' = "unshare"
            /\ UNCHANGED <<result, stderr>>
    /\ UNCHANGED <<inVars, status, selfSig, pns, cpc, childStatus, cloneVars, fsVars,
                   sysVars, ops>>

\* ------------------------------------------------ sandbox.c: contain
\* A slip that would pair each flag with the other namespace.
NsFlags_Swapped(net, mount) ==
    {"CLONE_NEWUSER", "CLONE_NEWUTS", "CLONE_NEWIPC", "CLONE_NEWPID"}
    \cup (IF net THEN {"CLONE_NEWNS"} ELSE {})
    \cup (IF mount THEN {"CLONE_NEWNET"} ELSE {})

\* The namespace flags contain computes for clone.
NsFlags(net, mount) ==
    {"CLONE_NEWUSER", "CLONE_NEWUTS", "CLONE_NEWIPC", "CLONE_NEWPID"}
    \cup (IF net THEN {"CLONE_NEWNET"} ELSE {})
    \cup (IF mount THEN {"CLONE_NEWNS"} ELSE {})

\* A contain that reports the failure and lacks the return after it.
NoChild_GoesOn(msgs) ==
    /\ ppc' = "waitpid"
    /\ stderr' = stderr \o msgs
    /\ UNCHANGED result

\* The child could not be created: the diagnostic, then return 1.
NoChild(msgs) ==
    /\ ppc' = "returned" /\ result' = 1
    /\ stderr' = stderr \o msgs

\* contain up to the clone: map the child stack, clone contain_child.
contain_clone ==
    /\ prog = "sandbox_c" /\ ppc = "contain"
    /\ \E outcome \in {"mmap_failed", "clone_failed", "ok"} :
         CASE outcome = "mmap_failed" ->
                /\ NoChild(<<"mmap">>)
                /\ UNCHANGED <<cpc, cloneFlags, cns>>
           [] outcome = "clone_failed" ->
                /\ NoChild(<<"clone", "not enough permissions to call clone(2)",
                             "requires support for user namespaces">>)
                /\ cloneFlags' = NsFlags(inp.net, inp.mount) \cup {"SIGCHLD"}
                /\ UNCHANGED <<cpc, cns>>
           [] outcome = "ok" ->
                /\ ppc' = "waitpid"
                /\ cloneFlags' = NsFlags(inp.net, inp.mount) \cup {"SIGCHLD"}
                /\ cns' = NsOfFlags(cloneFlags')
                /\ cpc' = "deny_groups"
                /\ UNCHANGED <<result, stderr>>
    /\ UNCHANGED <<inVars, pns, status, childStatus, selfSig, fsVars, sysVars, ops>>

\* A contain that does not send itself the child's signal.
StatusResult_NoReraise(st, delivered) ==
    IF WIFEXITED(st) THEN WEXITSTATUS(st) ELSE 1

\* What contain does with the status word once waitpid is over: the value
\* it returns, or -1 when the signal it sent itself ended it.
\* delivered: the signal is neither ignored nor blocked in the parent.
StatusResult(st, delivered) ==
    IF WIFEXITED(st) THEN WEXITSTATUS(st)
    ELSE IF WIFSIGNALED(st) /\ delivered THEN -1
    ELSE 1

\* contain from waitpid to its return.  waitpid blocks until the child has
\* terminated; when it fails it leaves status as initialised.
contain_wait ==
    /\ prog = "sandbox_c" /\ ppc = "waitpid"
    /\ childStatus # -1
    /\ \E ok \in BOOLEAN :
         /\ status' = (IF ok THEN childStatus ELSE status)
         /\ selfSig' = (IF ~WIFEXITED(status') /\ WIFSIGNALED(status')
                        THEN WTERMSIG(status') ELSE 0)
         /\ result' = StatusResult(status', selfSig' \notin inp.sigign)
         /\ ppc' = (IF result' = -1 THEN "signalled" ELSE "returned")
         /\ stderr' = stderr
                      \o (IF ok THEN <<>> ELSE <<"waitpid failed">>)
                      \o (IF ~WIFEXITED(status') /\ result' # -1
                          THEN <<"child exit failed">> ELSE <<>>)
    /\ UNCHANGED <<inVars, pns, cpc, childStatus, cloneVars, fsVars, sysVars, ops>>

\* The invoked process is killed while its child exists and before waitpid
\* has returned.  The kernel sends the child its parent-death signal, if
\* the child has set one by then; a child that has not stays as it is, now
\* without a parent.
parent_killed ==
    /\ prog = "sandbox_c" /\ ppc = "waitpid"
    /\ ppc' = "killed"
    /\ IF pdeathsig # 0 /\ cpc \notin {"exited", "signalled"}
       THEN /\ cpc' = "signalled"
            /\ childStatus' = pdeathsig
       ELSE UNCHANGED <<cpc, childStatus>>
    /\ UNCHANGED <<inVars, result, status, selfSig, pns, cloneVars, fsVars, sysVars,
                   ops, stderr>>

\* ------------------------------------------ sandbox.c: contain_child
Op(name, res) == [op |-> name, res |-> res]

\* contain_child returns 1: the child exits with status 1.
ChildFails(name, msgs) ==
    /\ cpc' = "exited"
    /\ childStatus' = W_EXITCODE(1, 0)
    /\ ops' = Append(ops, Op(name, "err"))
    /\ stderr' = stderr \o msgs

ChildGoes(name, next) ==
    /\ cpc' = next
    /\ ops' = Append(ops, Op(name, "ok"))
    /\ UNCHANGED <<childStatus, stderr>>

\* A call that succeeds and the calls made right after it; none of those can
\* fail.
ChildDoes(names, next) ==
    /\ cpc' = next
    /\ ops' = ops \o [i \in 1..Len(names) |-> Op(names[i], "ok")]
    /\ UNCHANGED <<childStatus, stderr>>

AfterFs == IF inp.net THEN "lo_up" ELSE "prctl"
\* A contain_child that sets the file system up only when the network is
\* set up too.
AfterIds_NeedsNet == IF inp.mount /\ inp.net THEN "mount_tmp" ELSE AfterFs

AfterIds == IF inp.mount THEN "mount_tmp" ELSE AfterFs

\* A contain_child that goes on to the maps whatever deny_groups returned.
deny_groups_Unchecked ==
    /\ cpc = "deny_groups"
    /\ \E outcome \in {"fopen", "fputs", "fclose", "ok"} :
         /\ cpc' = "map_uid"
         /\ ops' = Append(ops, Op("deny_groups", IF outcome = "ok" THEN "ok" ELSE "err"))
         /\ stderr' = stderr \o (IF outcome \in {"ok", "fclose"} THEN <<>> ELSE <<outcome>>)
         /\ idmaps' = (IF outcome = "ok" THEN [idmaps EXCEPT !.setgroups = "deny"]
                       ELSE idmaps)
    /\ UNCHANGED <<inVars, parentVars, cloneVars, fsVars, netcfg, pdeathsig, childStatus>>

deny_groups ==
    /\ cpc = "deny_groups"
    /\ \E outcome \in {"fopen", "fputs", "fclose", "ok"} :
         CASE outcome = "ok" ->
                /\ ChildGoes("deny_groups", "map_uid")
                /\ idmaps' = [idmaps EXCEPT !.setgroups = "deny"]
           [] outcome = "fopen" ->
                /\ ChildFails("deny_groups", <<"fopen /proc/self/setgroups">>)
                /\ UNCHANGED idmaps
           [] outcome = "fputs" ->
                /\ ChildFails("deny_groups", <<"fputs">>)
                /\ UNCHANGED idmaps
           [] outcome = "fclose" ->
                /\ ChildFails("deny_groups", <<>>)
                /\ UNCHANGED idmaps
    /\ UNCHANGED <<inVars, parentVars, cloneVars, fsVars, netcfg, pdeathsig>>

\* A uid_t handed over for the parameter int out_id: the same 32 bits read
\* with a sign.
IntOfId(id) ==
    IF id.hi >= 32768 THEN (id.hi - 65536) * 65536 + id.lo ELSE id.hi * 65536 + id.lo

DigitChar(d) == <<"0", "1", "2", "3", "4", "5", "6", "7", "8", "9">>[d + 1]

\* The decimal digits of -n, for n <= 0.
RECURSIVE DigitsOfNeg(_)
DigitsOfNeg(n) ==
    LET d == (10 - (n % 10)) % 10
    IN  IF n > -10 THEN <<DigitChar(-n)>>
        ELSE DigitsOfNeg((n + d) \div 10) \o <<DigitChar(d)>>

\* What printf's %d prints for an int.
FormatD(n) == IF n < 0 THEN <<"-">> \o DigitsOfNeg(n) ELSE DigitsOfNeg(0 - n)

\* The line map_ids prints for an id: "%d %d 1\n".
MapLine(out_id) == FormatD(out_id) \o <<" ">> \o FormatD(out_id) \o <<" ", "1", "\n">>

\* The kernel takes a map line only if its numbers are unsigned decimals;
\* it refuses the write otherwise, which is seen when fclose flushes.
LineAccepted(out_id) == out_id >= 0

MapIdsFails(name, outcome) == ChildFails(name, <<outcome>>)

map_uid ==
    /\ cpc = "map_uid"
    /\ \E outcome \in {"fopen", "fprintf", "fclose", "ok"} :
         /\ outcome = "ok" => LineAccepted(IntOfId(inp.uid))
         /\ IF outcome = "ok"
            THEN ChildGoes("uid_map", "map_gid")
            ELSE MapIdsFails("uid_map", outcome)
         /\ IF outcome \in {"ok", "fclose"}
            THEN idmaps' = [idmaps EXCEPT !.uid_map = <<MapLine(IntOfId(inp.uid))>>]
            ELSE UNCHANGED idmaps
    /\ UNCHANGED <<inVars, parentVars, cloneVars, fsVars, netcfg, pdeathsig>>

map_gid ==
    /\ cpc = "map_gid"
    /\ \E outcome \in {"fopen", "fprintf", "fclose", "ok"} :
         /\ outcome = "ok" => LineAccepted(IntOfId(inp.gid))
         /\ IF outcome = "ok"
            THEN ChildGoes("gid_map", AfterIds)
            ELSE MapIdsFails("gid_map", outcome)
         /\ IF outcome \in {"ok", "fclose"}
            THEN idmaps' = [idmaps EXCEPT !.gid_map = <<MapLine(IntOfId(inp.gid))>>]
            ELSE UNCHANGED idmaps
    /\ UNCHANGED <<inVars, parentVars, cloneVars, fsVars, netcfg, pdeathsig>>

\* ---------------------------------------------- sandbox.c: mount_tmp
\* TMP_DIR lies under /tmp/: nothing is mounted and mount_tmp returns 0.
mount_tmp_skip ==
    /\ cpc = "mount_tmp"
    /\ DirUnderTmp
    /\ cpc' = "mount_proc"
    /\ stderr' = Append(stderr, "Not mounting tmpfs on /tmp since TMP_DIR is a subdir")
    /\ UNCHANGED <<inVars, parentVars, cloneVars, fsVars, sysVars, childStatus, ops>>

remount_private ==
    /\ cpc = "mount_tmp"
    /\ ~DirUnderTmp
    /\ \E ok \in BOOLEAN :
         IF ok
         THEN /\ ChildGoes("remount_private", "mt_tmpfs")
              /\ mounts' = MakeRPrivate(mounts)
         ELSE /\ ChildFails("remount_private", <<"remount">>)
              /\ UNCHANGED mounts
    /\ UNCHANGED <<inVars, parentVars, cloneVars, env, argv, cwd, tokens, sysVars>>

mount_tmpfs_tmp ==
    /\ cpc = "mt_tmpfs"
    /\ \E ok \in BOOLEAN :
         IF ok
         THEN /\ ChildGoes("mount_tmp", "mt_setenv")
              /\ mounts' = MountTmpfsAt(mounts, SLASH_TMP, FALSE)
         ELSE /\ ChildFails("mount_tmp", <<"mount">>)
              /\ UNCHANGED mounts
    /\ UNCHANGED <<inVars, parentVars, cloneVars, env, argv, cwd, tokens, sysVars>>

\* setenv("TMPDIR", "/tmp", 1), then getenv("SANDBOX_DIRS") and the first
\* strtok.
setenv_tmpdir ==
    /\ cpc = "mt_setenv"
    /\ \E ok \in BOOLEAN :
         IF ok
         THEN /\ ChildGoes("setenv_TMPDIR", "mt_dirs")
              /\ env' = setenv(env, N_TMPDIR, SLASH_TMP)
              /\ tokens' = (IF HasEnv(env, N_SANDBOX_DIRS)
                            THEN strtok(getenv(env, N_SANDBOX_DIRS)) ELSE <<>>)
         ELSE /\ ChildFails("setenv_TMPDIR", <<"setenv">>)
              /\ UNCHANGED <<env, tokens>>
    /\ UNCHANGED <<inVars, parentVars, cloneVars, argv, cwd, mounts, sysVars>>

\* One turn of the SANDBOX_DIRS loop: a read-only tmpfs over the token.
\* "skip" is a failure with ENOENT or ENOTDIR, "err" any other failure.
mount_hidden ==
    /\ cpc = "mt_dirs"
    /\ tokens # <<>>
    /\ \E outcome \in {"ok", "skip", "err"} :
         CASE outcome = "ok" ->
                /\ ChildGoes("mount_hidden", "mt_dirs")
                /\ mounts' = MountTmpfsAt(mounts, Head(tokens), TRUE)
           [] outcome = "skip" ->
                /\ cpc' = "mt_dirs"
                /\ ops' = Append(ops, Op("mount_hidden", "skip"))
                /\ stderr' = Append(stderr, "Not mounting over it since it isn't a directory")
                /\ UNCHANGED <<childStatus, mounts>>
           [] outcome = "err" ->
                /\ ChildFails("mount_hidden", <<"mount tmpfs">>)
                /\ UNCHANGED mounts
    /\ tokens' = Tail(tokens)
    /\ UNCHANGED <<inVars, parentVars, cloneVars, env, argv, cwd, sysVars>>

\* The loop is over: unsetenv("SANDBOX_DIRS") if it was set; then mount_tmp
\* returns 0 when TMP_DIR is not set.
sandbox_dirs_done ==
    /\ cpc = "mt_dirs"
    /\ tokens = <<>>
    /\ env' = (IF HasEnv(env, N_SANDBOX_DIRS) THEN unsetenv(env, N_SANDBOX_DIRS) ELSE env)
    /\ IF ~DirSet
       THEN /\ cpc' = "mount_proc"
            /\ stderr' = Append(stderr, "TMP_DIR not set, will not bind-mount to /tmp/plz_sandbox")
       ELSE /\ cpc' = "mt_mkdir"
            /\ UNCHANGED stderr
    /\ UNCHANGED <<inVars, parentVars, cloneVars, argv, cwd, mounts, tokens, sysVars,
                   childStatus, ops>>

mkdir_inner ==
    /\ cpc = "mt_mkdir"
    /\ \E ok \in BOOLEAN :
         IF ok
         THEN ChildGoes("mkdir", "mt_bind")
         ELSE ChildFails("mkdir", <<"mkdir /tmp/plz_sandbox">>)
    /\ UNCHANGED <<inVars, parentVars, cloneVars, fsVars, sysVars>>

\* The bind mount, then change_env_vars(environ, dir, d).
bind_mount ==
    /\ cpc = "mt_bind"
    /\ \E ok \in BOOLEAN :
         IF ok
         THEN /\ ChildDoes(<<"bind_mount", "change_env_vars">>, "mt_setenv3")
              /\ mounts' = BindMount(mounts, Dir, INNER_TMP)
              /\ env' = change_env_vars(env, Dir, INNER_TMP)
         ELSE /\ ChildFails("bind_mount", <<"bind mount">>)
              /\ UNCHANGED <<mounts, env>>
    /\ UNCHANGED <<inVars, parentVars, cloneVars, argv, cwd, tokens, sysVars>>

\* The environment after the first k of the three setenv calls.
Setenv3(e, k) ==
    LET e1 == IF k >= 1 THEN setenv(e, N_TEST_DIR, INNER_TMP) ELSE e
        e2 == IF k >= 2 THEN setenv(e1, N_TMP_DIR, INNER_TMP) ELSE e1
    IN  IF k >= 3 THEN setenv(e2, N_HOME, INNER_TMP) ELSE e2

\* setenv of TEST_DIR, TMP_DIR and HOME; k of them succeed.
setenv_dirs ==
    /\ cpc = "mt_setenv3"
    /\ \E k \in 0..3 :
         /\ env' = Setenv3(env, k)
         /\ IF k = 3
            THEN ChildGoes("setenv_dirs", "mt_remount_ro")
            ELSE ChildFails("setenv_dirs", <<"setenv">>)
    /\ UNCHANGED <<inVars, parentVars, cloneVars, argv, cwd, mounts, tokens, sysVars>>

\* Root is made read-only, then *argv0 = exec_name(*argv0, dir, d).
remount_ro ==
    /\ cpc = "mt_remount_ro"
    /\ \E ok \in BOOLEAN :
         IF ok
         THEN /\ ChildDoes(<<"remount_ro", "exec_name">>, "mt_chdir")
              /\ mounts' = RemountReadOnly(mounts, ROOT)
              /\ argv' = [argv EXCEPT ![1] = exec_name(argv[1], Dir, INNER_TMP)]
         ELSE /\ ChildFails("remount_ro", <<"remount ro">>)
              /\ UNCHANGED <<mounts, argv>>
    /\ UNCHANGED <<inVars, parentVars, cloneVars, env, cwd, tokens, sysVars>>

\* return chdir(d): a failure is returned without a diagnostic.
chdir_inner ==
    /\ cpc = "mt_chdir"
    /\ \E ok \in BOOLEAN :
         IF ok
         THEN /\ ChildGoes("chdir", "mount_proc")
              /\ cwd' = INNER_TMP
         ELSE /\ ChildFails("chdir", <<>>)
              /\ UNCHANGED cwd
    /\ UNCHANGED <<inVars, parentVars, cloneVars, env, argv, mounts, tokens, sysVars>>

mount_proc ==
    /\ cpc = "mount_proc"
    /\ \E ok \in BOOLEAN :
         IF ok
         THEN /\ ChildGoes("mount_proc", AfterFs)
              /\ mounts' = MountProcfs(mounts)
         ELSE /\ ChildFails("mount_proc", <<"mount proc">>)
              /\ UNCHANGED mounts
    /\ UNCHANGED <<inVars, parentVars, cloneVars, env, argv, cwd, tokens, sysVars>>

\* ------------------------------------------- sandbox.c: network setup
\* socket, SIOCGIFFLAGS, SIOCSIFFLAGS; the first k succeed.
lo_up ==
    /\ cpc = "lo_up"
    /\ \E k \in 0..3 :
         IF k = 3
         THEN /\ ChildGoes("lo_up", "add_local_ip")
              /\ netcfg' = [netcfg EXCEPT !.lo_up = TRUE]
         ELSE /\ ChildFails("lo_up", <<(<<"socket", "SIOCGIFFLAGS", "SIOCSIFFLAGS">>)[k + 1]>>)
              /\ UNCHANGED netcfg
    /\ UNCHANGED <<inVars, parentVars, cloneVars, fsVars, pdeathsig, idmaps>>

\* socket, bind, send of the RTM_NEWADDR request; the first k succeed.  The
\* kernel's answer to the request is never read: add_local_ip returns 0
\* once the request is sent, accepted or not.
add_local_ip ==
    /\ cpc = "add_local_ip"
    /\ \E k \in 0..3, accepted \in BOOLEAN :
         IF k = 3
         THEN /\ ChildGoes("add_local_ip", "default_gateway")
              /\ netcfg' = [netcfg EXCEPT !.addr = accepted]
         ELSE /\ ~accepted
              /\ ChildFails("add_local_ip", <<(<<"socket", "bind", "send">>)[k + 1]>>)
              /\ UNCHANGED netcfg
    /\ UNCHANGED <<inVars, parentVars, cloneVars, fsVars, pdeathsig, idmaps>>

\* socket, SIOCADDRT; the first k succeed.
default_gateway ==
    /\ cpc = "default_gateway"
    /\ \E k \in 0..2 :
         IF k = 2
         THEN /\ ChildGoes("default_gateway", "prctl")
              /\ netcfg' = [netcfg EXCEPT !.route = TRUE]
         ELSE /\ ChildFails("default_gateway", <<(<<"socket", "SIOCADDRT">>)[k + 1]>>)
              /\ UNCHANGED netcfg
    /\ UNCHANGED <<inVars, parentVars, cloneVars, fsVars, pdeathsig, idmaps>>

\* ------------------------------------- sandbox.c: parent death, exec
prctl_pdeathsig ==
    /\ cpc = "prctl"
    /\ \E ok \in BOOLEAN :
         IF ok
         THEN /\ ChildGoes("prctl", "execvp")
              /\ pdeathsig' = 9
         ELSE /\ ChildFails("prctl", <<"failed to set PDEATHSIG">>)
              /\ UNCHANGED pdeathsig
    /\ UNCHANGED <<inVars, parentVars, cloneVars, fsVars, netcfg, idmaps>>

\* execvp(arg->argv[0], arg->argv): on success the child is the target.
execvp ==
    /\ cpc = "execvp"
    /\ \E ok \in BOOLEAN :
         IF ok
         THEN ChildGoes("execvp", "running")
         ELSE ChildFails("execvp", <<"exec">>)
    /\ UNCHANGED <<inVars, parentVars, cloneVars, fsVars, sysVars>>

\* The target program exits.
target_exit ==
    /\ cpc = "running"
    /\ \E c \in ExitCodes :
         /\ cpc' = "exited"
         /\ childStatus' = W_EXITCODE(c, 0)
    /\ UNCHANGED <<inVars, parentVars, cloneVars, fsVars, sysVars, ops, stderr>>

\* A signal terminates the child, during the setup or once it is the target.
child_signalled ==
    /\ cpc \notin {"none", "exited", "signalled"}
    /\ \E st \in SignalStatuses :
         /\ cpc' = "signalled"
         /\ childStatus' = st
    /\ UNCHANGED <<inVars, parentVars, cloneVars, fsVars, sysVars, ops, stderr>>

\* ------------------------------------------------ main.c: contain
\* tools/sandbox/main.c carries its own contain: it unshares the calling
\* process, sets it up and execs the target in place.  There is no child.
UnshareFlags ==
    {"CLONE_NEWUSER", "CLONE_NEWNET", "CLONE_NEWUTS", "CLONE_NEWIPC", "CLONE_NEWNS"}

\* contain returns 1 and main returns it.
MainFails(names, msgs) ==
    /\ ppc' = "returned"
    /\ result' = 1
    /\ ops' = ops \o [i \in 1..Len(names) |->
                        Op(names[i], IF i = Len(names) THEN "err" ELSE "ok")]
    /\ stderr' = stderr \o msgs

MainGoes(names, next) ==
    /\ ppc' = next
    /\ ops' = ops \o [i \in 1..Len(names) |-> Op(names[i], "ok")]
    /\ UNCHANGED <<result, stderr>>

main_unshare ==
    /\ prog = "main_c" /\ ppc = "unshare"
    /\ \E ok \in BOOLEAN :
         IF ok
         THEN /\ MainGoes(<<"unshare">>, "m_ids")
              /\ pns' = NsOfFlags(UnshareFlags)
         ELSE /\ MainFails(<<"unshare">>,
                           <<"unshare", "not enough permissions to call unshare(2)",
                             "requires support for user namespaces">>)
              /\ UNCHANGED pns
    /\ UNCHANGED <<inVars, status, selfSig, cpc, childStatus, cloneVars, fsVars, sysVars>>

\* deny_groups, map_ids(uid), map_ids(gid); the first k succeed, and the
\* next fails in fopen, in the write or in fclose (deny_groups reports no
\* fclose failure).
main_ids ==
    /\ prog = "main_c" /\ ppc = "m_ids"
    /\ \E k \in 0..3, cause \in {"fopen", "write", "fclose"} :
         LET names == <<"deny_groups", "uid_map", "gid_map">>
             printed(n) == k >= n \/ (k = n - 1 /\ cause = "fclose")
         IN  /\ k >= 2 => LineAccepted(IntOfId(inp.uid))
             /\ k >= 3 => LineAccepted(IntOfId(inp.gid))
             /\ idmaps' = [setgroups |-> IF k >= 1 THEN "deny" ELSE "allow",
                           uid_map |-> IF printed(2) THEN <<MapLine(IntOfId(inp.uid))>>
                                       ELSE <<>>,
                           gid_map |-> IF printed(3) THEN <<MapLine(IntOfId(inp.gid))>>
                                       ELSE <<>>]
             /\ IF k = 3
                THEN cause = "fopen" /\ MainGoes(names, "m_mount_tmp")
                ELSE MainFails(SubSeq(names, 1, k + 1),
                               IF k = 0 /\ cause = "fclose" THEN <<>> ELSE <<cause>>)
    /\ UNCHANGED <<inVars, status, selfSig, pns, cpc, childStatus, cloneVars, fsVars,
                   netcfg, pdeathsig>>

\* The calls of main.c's mount_tmp, in order; it stops after the third when
\* TMP_DIR is not set.
MainFsSteps ==
    IF DirSet
    THEN <<"remount_private", "mount_tmp", "setenv_TMPDIR", "mkdir", "bind_mount",
           "setenv_TEST_DIR", "setenv_TMP_DIR", "setenv_HOME", "chdir">>
    ELSE <<"remount_private", "mount_tmp", "setenv_TMPDIR">>

MainFsMessages ==
    << <<"remount">>, <<"mount">>, <<"setenv">>, <<"mkdir /tmp/plz_sandbox">>,
       <<"bind mount">>, <<"setenv">>, <<"setenv">>, <<"setenv">>, <<>> >>

\* main.c's mount_tmp; the first k calls succeed.
main_mount_tmp ==
    /\ prog = "main_c" /\ ppc = "m_mount_tmp"
    /\ IF DirUnderTmp
       THEN /\ ppc' = "m_lo_up"
            /\ stderr' = Append(stderr, "Not mounting tmpfs on /tmp since TMP_DIR is a subdir")
            /\ UNCHANGED <<result, ops, env, cwd, mounts>>
       ELSE \E k \in 0..Len(MainFsSteps) :
            LET m1 == IF k >= 1 THEN MakeRPrivate(mounts) ELSE mounts
                m2 == IF k >= 2 THEN MountTmpfsAt(m1, SLASH_TMP, FALSE) ELSE m1
                e1 == IF k >= 3 THEN setenv(env, N_TMPDIR, SLASH_TMP) ELSE env
            IN  /\ mounts' = (IF k >= 5 THEN BindMount(m2, Dir, INNER_TMP) ELSE m2)
                /\ env' = (IF k >= 6 THEN Setenv3(e1, k - 5) ELSE e1)
                /\ cwd' = (IF k >= 9 THEN INNER_TMP ELSE cwd)
                /\ IF k = Len(MainFsSteps)
                   THEN /\ ppc' = "m_lo_up"
                        /\ ops' = ops \o [i \in 1..k |-> Op(MainFsSteps[i], "ok")]
                        /\ stderr' = stderr \o
                              (IF DirSet THEN <<>>
                               ELSE <<"TMP_DIR not set, will not bind-mount to /tmp/plz_sandbox">>)
                        /\ UNCHANGED result
                   ELSE MainFails(SubSeq(MainFsSteps, 1, k + 1), MainFsMessages[k + 1])
    /\ UNCHANGED <<inVars, status, selfSig, pns, cpc, childStatus, cloneVars, argv, tokens,
                   sysVars>>

\* main.c's lo_up: socket, SIOCGIFFLAGS, SIOCSIFFLAGS; the first k succeed.
main_lo_up ==
    /\ prog = "main_c" /\ ppc = "m_lo_up"
    /\ \E k \in 0..3 :
         IF k = 3
         THEN /\ MainGoes(<<"lo_up">>, "m_execvp")
              /\ netcfg' = [netcfg EXCEPT !.lo_up = TRUE]
         ELSE /\ MainFails(<<"lo_up">>, <<(<<"socket", "SIOCGIFFLAGS", "SIOCSIFFLAGS">>)[k + 1]>>)
              /\ UNCHANGED netcfg
    /\ UNCHANGED <<inVars, status, selfSig, pns, cpc, childStatus, cloneVars, fsVars,
                   pdeathsig, idmaps>>

\* execvp(argv[0], argv) in the invoked process itself.
main_execvp ==
    /\ prog = "main_c" /\ ppc = "m_execvp"
    /\ \E ok \in BOOLEAN :
         IF ok
         THEN MainGoes(<<"execvp">>, "m_running")
         ELSE MainFails(<<"execvp">>, <<"exec">>)
    /\ UNCHANGED <<inVars, status, selfSig, pns, cpc, childStatus, cloneVars, fsVars, sysVars>>

\* The target, running as the invoked process, exits or is killed.
main_target_ends ==
    /\ prog = "main_c" /\ ppc = "m_running"
    /\ \/ \E c \in ExitCodes :
            /\ ppc' = "exited" /\ result' = c /\ UNCHANGED selfSig
       \/ \E st \in SignalStatuses :
            /\ ppc' = "signalled" /\ selfSig' = WTERMSIG(st) /\ UNCHANGED result
    /\ UNCHANGED <<inVars, status, pns, cpc, childStatus, cloneVars, fsVars, sysVars, ops,
                   stderr>>

Next ==
    \/ nonet_main \/ main_main
    \/ contain_clone \/ contain_wait \/ parent_killed
    \/ deny_groups \/ map_uid \/ map_gid
    \/ mount_tmp_skip \/ remount_private \/ mount_tmpfs_tmp \/ setenv_tmpdir
    \/ mount_hidden \/ sandbox_dirs_done \/ mkdir_inner \/ bind_mount
    \/ setenv_dirs \/ remount_ro \/ chdir_inner \/ mount_proc
    \/ lo_up \/ add_local_ip \/ default_gateway
    \/ prctl_pdeathsig \/ execvp \/ target_exit \/ child_signalled
    \/ main_unshare \/ main_ids \/ main_mount_tmp \/ main_lo_up \/ main_execvp
    \/ main_target_ends

Spec == Init /\ [][Next]_vars

\* ================================================================
\* The rewriters on their own, as sandbox_test.cc calls them
\* ================================================================
PathChars == {"/", "a"}
Strings(chars, n) == UNION {[1..k -> chars] : k \in 0..n}

\* Entries of an environment array: with a value, with an empty name, with
\* a second "=", without any "=".
EntryChoices ==
    { <<"a", "=", "/", "a">>, <<"a", "=", "a", "/">>, <<"=", "/">>,
      <<"a", "=", "/", "=", "/">>, <<"/", "a">>, <<"a", "=">>, <<"a", "=", "=", "/">> }

ChangePathCalls ==
    { c \in [fn : {"change_path"}, s : Strings(PathChars, MaxNameLen),
             old : Strings(PathChars, MaxDirLen), new : Strings(PathChars, MaxDirLen),
             off : 0..MaxNameLen, done : {FALSE}, out : {<<>>}] :
        c.off <= Len(c.s) }

ExecNameCalls ==
    [fn : {"exec_name", "round_trip"}, s : Strings(PathChars, MaxNameLen),
     old : Strings(PathChars, MaxDirLen), new : Strings(PathChars, MaxDirLen),
     off : {0}, done : {FALSE}, out : {<<>>}]

ChangeEnvCalls ==
    [fn : {"change_env_vars"}, env : Strings(EntryChoices, MaxEnvLen),
     old : Strings(PathChars, MaxDirLen), new : Strings(PathChars, MaxDirLen),
     done : {FALSE}, out : {<<>>}]

\* No sandbox runs: only the call is in play.
RewriterInit ==
    /\ prog = "rewriter"
    /\ call \in ChangePathCalls \cup ExecNameCalls \cup ChangeEnvCalls
    /\ inp = [front |-> "none"]
    /\ ppc = "none" /\ cpc = "none"
    /\ result = -1 /\ cloneFlags = {} /\ pns = {} /\ cns = {}
    /\ status = 0 /\ childStatus = -1 /\ selfSig = 0
    /\ env = <<>> /\ argv = <<>> /\ cwd = ROOT
    /\ mounts = InitialMounts
    /\ netcfg = [lo_up |-> FALSE, addr |-> FALSE, route |-> FALSE]
    /\ pdeathsig = 0
    /\ idmaps = [setgroups |-> "allow", uid_map |-> <<>>, gid_map |-> <<>>]
    /\ tokens = <<>> /\ ops = <<>> /\ stderr = <<>>
    /\ creds = UserCreds

Returns(value) ==
    /\ call' = [call EXCEPT !.done = TRUE, !.out = value]
    /\ UNCHANGED <<prog, inp, creds, parentVars, cpc, childStatus, cloneVars, fsVars, sysVars,
                   ops, stderr>>

call_change_path ==
    /\ call.fn = "change_path" /\ ~call.done
    /\ Returns(change_path(call.s, call.old, call.new, call.off))

call_exec_name ==
    /\ call.fn = "exec_name" /\ ~call.done
    /\ Returns(exec_name(call.s, call.old, call.new))

\* exec_name from old to new, then from new back to old.
call_round_trip ==
    /\ call.fn = "round_trip" /\ ~call.done
    /\ Returns(exec_name(exec_name(call.s, call.old, call.new), call.new, call.old))

call_change_env_vars ==
    /\ call.fn = "change_env_vars" /\ ~call.done
    /\ Returns(change_env_vars(call.env, call.old, call.new))

RewriterNext ==
    \/ call_change_path \/ call_exec_name \/ call_round_trip \/ call_change_env_vars

RewriterSpec == RewriterInit /\ [][RewriterNext]_vars

\* ================================================================
\* tools/please_contain/main.c
\* ================================================================
\* The credentials please_contain is started with: by a user from a binary
\* that is setuid root, setuid and setgid root, or neither, and by root.
\* A set-id binary starts with the dumpable flag cleared.
CredChoices ==
    { Creds(0, 1000, 0, 0, 100, 100, 100), Creds(0, 1000, 0, 0, 100, 0, 0),
      UserCreds, Creds(1, 0, 0, 0, 0, 0, 0) }

\* argv is the command (main's argv + 1).
ContainInputs ==
    [front : {"please_contain"}, argv : {<<>>, <<ARG_SH>>, <<ARG_BIN, ARG_BIN>>},
     creds : CredChoices]

\* result is here what main handed to exit or returned, which is what
\* clone_and_contain returned when ppc is "returned"; that can be -1.
ContainInit ==
    /\ prog = "please_contain"
    /\ inp \in ContainInputs
    /\ creds = inp.creds
    /\ argv = inp.argv
    /\ ppc = "main" /\ cpc = "none"
    /\ result = -1 /\ cloneFlags = {} /\ pns = {} /\ cns = {}
    /\ status = 0 /\ childStatus = -1 /\ selfSig = 0
    /\ env = <<>> /\ cwd = ROOT
    /\ mounts = InitialMounts
    /\ netcfg = [lo_up |-> FALSE, addr |-> FALSE, route |-> FALSE]
    /\ pdeathsig = 0
    /\ idmaps = [setgroups |-> "allow", uid_map |-> <<>>, gid_map |-> <<>>]
    /\ tokens = <<>> /\ ops = <<>> /\ stderr = <<>>
    /\ call = NoCall

\* What no step of please_contain writes.
idleVars == <<prog, inp, call, selfSig, pns, fsVars, sysVars>>

\* main: the usage message and exit(1), or clone_and_contain(&argv[1]).
please_contain_main ==
    /\ prog = "please_contain" /\ ppc = "main"
    /\ IF ArgcTooSmall(inp.argv)
       THEN /\ ppc' = "exited" /\ result' = 1
            /\ stderr' = stderr \o <<"please_contain implements sandboxing for Please.",
                                      "It takes no flags",
                                      "Usage: plz_contain command args...">>
       ELSE /\ ppc' = "clone_and_contain"
            /\ UNCHANGED <<result, stderr>>
    /\ UNCHANGED <<idleVars, creds, status, cpc, childStatus, cloneVars, ops>>

\* errno after a failed clone: EPERM, EAGAIN, ENOMEM.
CloneErrnos == {1, 11, 12}

\* clone_and_contain up to the clone.  New PID and network namespaces
\* without a user namespace need CAP_SYS_ADMIN: the kernel refuses the
\* clone with EPERM unless the effective uid is root.
clone_and_contain ==
    /\ prog = "please_contain" /\ ppc = "clone_and_contain"
    /\ \E outcome \in {"malloc_failed", "clone_failed", "ok"}, error \in CloneErrnos :
         CASE outcome = "malloc_failed" ->
                /\ ppc' = "exited" /\ result' = 3
                /\ UNCHANGED <<cpc, cloneVars, stderr>>
           [] outcome = "ok" ->
                /\ creds.euid = 0
                /\ ppc' = "waitpid"
                /\ cloneFlags' = {"CLONE_NEWPID", "CLONE_NEWNET", "SIGCHLD"}
                /\ cns' = NsOfFlags(cloneFlags')
                /\ cpc' = "set_dumpable"
                /\ UNCHANGED <<result, stderr>>
           [] outcome = "clone_failed" ->
                /\ creds.euid # 0 => error = 1
                /\ ppc' = "returned" /\ result' = error
                /\ cloneFlags' = {"CLONE_NEWPID", "CLONE_NEWNET", "SIGCHLD"}
                /\ stderr' = stderr \o <<"failed to clone: ", "strerror", "\n">>
                /\ UNCHANGED <<cpc, cns>>
    /\ UNCHANGED <<idleVars, creds, status, childStatus, ops>>

\* clone_and_contain from waitpid to its return.  waitpid returns the
\* status once the child has terminated; it can fail before or after.
clone_and_contain_wait ==
    /\ prog = "please_contain" /\ ppc = "waitpid"
    /\ \E ok \in BOOLEAN :
         /\ ok => childStatus # -1
         /\ status' = (IF ok THEN childStatus ELSE status)
         /\ result' = (IF ok THEN WEXITSTATUS(status') ELSE -1)
         /\ ppc' = "returned"
    /\ UNCHANGED <<idleVars, creds, cpc, childStatus, cloneVars, ops, stderr>>

\* An exec_child that calls execvp whatever drop_root returned.
ExecChildExecs_Always(r) == TRUE

\* exec_child: drop_root() ? 1 : execvp(argv[0], argv).
ExecChildExecs(r) == r = 0

\* drop_root returns r to exec_child, after the call named.
DropRootReturns(r, name, msgs) ==
    /\ ops' = Append(ops, Op(name, IF r = 0 THEN "ok" ELSE "err"))
    /\ stderr' = stderr \o msgs
    /\ IF ExecChildExecs(r)
       THEN cpc' = "exec_child" /\ UNCHANGED childStatus
       ELSE cpc' = "exited" /\ childStatus' = W_EXITCODE(1, 0)

\* prctl(PR_SET_DUMPABLE, 0, 0, 0, 0)
drop_root_set_dumpable ==
    /\ prog = "please_contain" /\ cpc = "set_dumpable"
    /\ \E ok \in BOOLEAN :
         IF ok
         THEN /\ ChildGoes("set_dumpable", "get_dumpable")
              /\ creds' = [creds EXCEPT !.dumpable = 0]
         ELSE /\ DropRootReturns(1, "set_dumpable", <<"prctl(PR_SET_DUMPABLE)">>)
              /\ UNCHANGED creds
    /\ UNCHANGED <<idleVars, ppc, result, status, cloneVars>>

\* prctl(PR_GET_DUMPABLE, 0, 0, 0, 0): the flag, or -1.
drop_root_get_dumpable ==
    /\ prog = "please_contain" /\ cpc = "get_dumpable"
    /\ \E r \in {creds.dumpable, -1} :
         IF r = 0
         THEN ChildGoes("get_dumpable", "getresgid")
         ELSE DropRootReturns(1, "get_dumpable",
                              <<"Still dumpable after prctl(PR_SET_DUMPABLE)">>)
    /\ UNCHANGED <<idleVars, creds, ppc, result, status, cloneVars>>

drop_root_getresgid ==
    /\ prog = "please_contain" /\ cpc = "getresgid"
    /\ \E ok \in BOOLEAN :
         IF ok
         THEN ChildGoes("getresgid", "setresgid")
         ELSE DropRootReturns(1, "getresgid", <<"getresgid">>)
    /\ UNCHANGED <<idleVars, creds, ppc, result, status, cloneVars>>

\* setresgid(rgid, rgid, rgid)
drop_root_setresgid ==
    /\ prog = "please_contain" /\ cpc = "setresgid"
    /\ \E ok \in BOOLEAN :
         IF ok
         THEN /\ ChildGoes("setresgid", "getresuid")
              /\ creds' = [creds EXCEPT !.egid = creds.rgid, !.sgid = creds.rgid]
         ELSE /\ DropRootReturns(1, "setresgid", <<"setresgid">>)
              /\ UNCHANGED creds
    /\ UNCHANGED <<idleVars, ppc, result, status, cloneVars>>

drop_root_getresuid ==
    /\ prog = "please_contain" /\ cpc = "getresuid"
    /\ \E ok \in BOOLEAN :
         IF ok
         THEN ChildGoes("getresuid", "setresuid")
         ELSE DropRootReturns(1, "getresuid", <<"getresuid">>)
    /\ UNCHANGED <<idleVars, creds, ppc, result, status, cloneVars>>

\* setresuid(ruid, ruid, ruid), then return 0.
drop_root_setresuid ==
    /\ prog = "please_contain" /\ cpc = "setresuid"
    /\ \E ok \in BOOLEAN :
         IF ok
         THEN /\ DropRootReturns(0, "setresuid", <<>>)
              /\ creds' = [creds EXCEPT !.euid = creds.ruid, !.suid = creds.ruid]
         ELSE /\ DropRootReturns(1, "setresuid", <<"setresuid">>)
              /\ UNCHANGED creds
    /\ UNCHANGED <<idleVars, ppc, result, status, cloneVars>>

\* execvp(argv[0], argv): on success the child is the target; on failure
\* exec_child returns -1 and the child exits with it.
exec_child ==
    /\ prog = "please_contain" /\ cpc = "exec_child"
    /\ \E ok \in BOOLEAN :
         IF ok
         THEN ChildGoes("execvp", "running")
         ELSE /\ cpc' = "exited"
              /\ childStatus' = W_EXITCODE(-1, 0)
              /\ ops' = Append(ops, Op("execvp", "err"))
              /\ UNCHANGED stderr
    /\ UNCHANGED <<idleVars, creds, ppc, result, status, cloneVars>>

ContainNext ==
    \/ please_contain_main \/ clone_and_contain \/ clone_and_contain_wait
    \/ drop_root_set_dumpable \/ drop_root_get_dumpable
    \/ drop_root_getresgid \/ drop_root_setresgid
    \/ drop_root_getresuid \/ drop_root_setresuid
    \/ exec_child \/ target_exit \/ child_signalled

ContainSpec == ContainInit /\ [][ContainNext]_vars

\* ================================================================
\* Properties
\* ================================================================
Did(name) == \E i \in 1..Len(ops) : ops[i] = Op(name, "ok")
Said(msg) == \E i \in 1..Len(stderr) : stderr[i] = msg

\* The target program was exec'd in the child.
Execd == prog = "sandbox_c" /\ Did("execvp")
\* contain of sandbox.c has returned to its caller.
Returned == prog = "sandbox_c" /\ ppc = "returned"
\* waitpid reported a child terminated by a signal.
SignalReported == prog = "sandbox_c" /\ ~WIFEXITED(status) /\ WIFSIGNALED(status)

\* C1: for every exit code c, if the cloned child exits normally with
\* status c, contain returns exactly c.
C1_ReturnsChildExitCode ==
    \A c \in 0..255 :
        (Returned /\ cpc = "exited" /\ childStatus = W_EXITCODE(c, 0)) => result = c

\* C2 as claimed: after waitpid reports a signal-terminated child, the
\* parent has sent itself the signal and contain never returns normally,
\* whatever the signal and the parent's disposition for it.
C2_NeverReturnsAfterSignal ==
    SignalReported => selfSig = WTERMSIG(status) /\ ppc # "returned"

\* C2 amended: after waitpid reports a child terminated by signal S, the
\* parent has sent S to itself; when S is delivered (neither ignored nor
\* blocked in the parent) contain does not return, and when the parent
\* ignores or blocks S contain reports "child exit failed" and returns 1.
C2_ReraisesSignal ==
    (SignalReported /\ ppc \in {"returned", "signalled"}) =>
        /\ selfSig = WTERMSIG(status)
        /\ selfSig \notin inp.sigign => ppc = "signalled" /\ result = -1
        /\ selfSig \in inp.sigign =>
              ppc = "returned" /\ result = 1 /\ Said("child exit failed")

\* A child killed by SIGSEGV with a core dump, the signal delivered to the
\* parent in turn.
C2_Witness ==
    SignalReported /\ status = 11 + 128 /\ ppc = "signalled" /\ selfSig = 11

\* C3: if waitpid fails, or the status is neither "exited" nor
\* "signalled", contain emits a diagnostic and returns 1.
C3_WaitFailureReturnsOne ==
    /\ (Returned /\ Said("waitpid failed")) => result = 1
    /\ (prog = "sandbox_c" /\ ppc \in {"returned", "signalled"}
        /\ cpc # "none" /\ ~WIFEXITED(status) /\ ~WIFSIGNALED(status)) =>
           ppc = "returned" /\ result = 1 /\ Said("child exit failed")

\* C4: contain returns 0 only if the target was exec'd and the child exited
\* normally with status 0; every failure yields a nonzero result.
C4_ZeroOnlyOnSuccess ==
    (Returned /\ result = 0) =>
        /\ Execd
        /\ cpc = "exited" /\ childStatus = W_EXITCODE(0, 0)
        /\ ~Said("waitpid failed")

\* The child's part of C5: a failed setup call is the last call the child
\* made, the target was not exec'd and the child exited with status 1.
ChildAbortedAt(i) ==
    /\ i = Len(ops)
    /\ ~Did("execvp")
    /\ cpc = "exited" /\ childStatus = W_EXITCODE(1, 0)

\* C5: if a setup operation fails (other than a tolerated ENOENT/ENOTDIR on
\* a SANDBOX_DIRS entry), no later setup operation is attempted, the target
\* is never exec'd, the child exits with status 1 and contain returns 1.
C5_AbortsAtFirstFailure ==
    prog = "sandbox_c" =>
        \A i \in 1..Len(ops) :
            (ops[i].res = "err" /\ ops[i].op # "execvp") =>
                /\ ChildAbortedAt(i)
                /\ ppc \in {"returned", "signalled"} => ppc = "returned" /\ result = 1

\* C6: the child is created with exactly the user, UTS, IPC and PID
\* namespaces, plus the network namespace iff SANDBOX_NET, plus the mount
\* namespace iff SANDBOX_FS, with SIGCHLD as its termination signal.
C6_CloneFlags ==
    /\ cloneFlags # {} =>
          /\ prog = "sandbox_c"
          /\ cloneFlags \ {"CLONE_NEWNET", "CLONE_NEWNS"}
                = {"CLONE_NEWUSER", "CLONE_NEWUTS", "CLONE_NEWIPC", "CLONE_NEWPID", "SIGCHLD"}
          /\ ("CLONE_NEWNET" \in cloneFlags) = inp.net
          /\ ("CLONE_NEWNS" \in cloneFlags) = inp.mount
    /\ cpc # "none" =>
          /\ cloneFlags # {}
          /\ cns \ {"net", "mnt"} = {"user", "uts", "ipc", "pid"}
          /\ ("net" \in cns) = inp.net
          /\ ("mnt" \in cns) = inp.mount

\* A child cloned with the network flag alone.
C6_Witness == cpc = "running" /\ inp.net /\ ~inp.mount /\ "net" \in cns /\ "mnt" \notin cns

\* C7: the process the build system invoked never enters the new
\* namespaces; only a separately created child is ever inside them.
C7_ParentStaysOutside == pns = {}

\* TMP_DIR was present in the invoker's environment / began with "/tmp/".
TmpDirPresent == \E i \in 1..Len(inp.env) : IsVar(inp.env[i], N_TMP_DIR)
TmpDirBeginsWithTmp ==
    /\ TmpDirPresent
    /\ LET v == getenv(inp.env, N_TMP_DIR)
       IN  Len(v) >= 5 /\ SubSeq(v, 1, 5) = <<"/", "t", "m", "p", "/">>

\* File-system setup was performed in full with TMP_DIR set.
FsSetupDone == prog = "sandbox_c" /\ Did("chdir") /\ Did("mount_proc")

\* C8: whenever the target is exec'd after file-system setup (SANDBOX_FS
\* set, TMP_DIR absent or not beginning with "/tmp/"), the root mount has
\* been remounted read-only.
C8_RootReadOnlyAtExec ==
    (Execd /\ inp.mount /\ ~TmpDirBeginsWithTmp) => mounts[MountOf(mounts, ROOT)].ro

\* The mounts that were there before the setup, the tmpfs on /tmp, the bind
\* mount, the new /proc, and the overlays of SANDBOX_DIRS entries.
IsOld(i) == i <= Len(InitialMounts)
IsTmp(i) == i = Len(InitialMounts) + 1 /\ mounts[i].fstype = "tmpfs"
                /\ mounts[i].target = SLASH_TMP
IsBind(i) == mounts[i].fstype = "bind" /\ mounts[i].target = INNER_TMP
IsProc(i) == ~IsOld(i) /\ mounts[i].fstype = "proc"
IsOverlay(i) == i > Len(InitialMounts) + 1 /\ mounts[i].fstype = "tmpfs"

\* C9 as claimed: after file-system setup with TMP_DIR set, the only
\* writable mounts are the tmpfs at /tmp and the bind mount at
\* /tmp/plz_sandbox; root, overlays, /proc and the older mounts are
\* read-only.
C9_OnlyTmpWritable ==
    FsSetupDone =>
        \A i \in 1..Len(mounts) : ~mounts[i].ro => IsTmp(i) \/ IsBind(i)

\* C9 amended: after file-system setup with TMP_DIR set, the root mount and
\* every SANDBOX_DIRS overlay are read-only; the writable mounts are the
\* tmpfs at /tmp, the bind mount at /tmp/plz_sandbox, the new /proc (mounted
\* read-write) and the mounts that were under the root before, which keep
\* the writability they had (the remount of / does not recurse).
C9_WritableMounts ==
    FsSetupDone =>
        /\ mounts[MountOf(mounts, ROOT)].ro
        /\ \A i \in 1..Len(mounts) :
              /\ IsOverlay(i) => mounts[i].ro
              /\ IsTmp(i) \/ IsProc(i) => ~mounts[i].ro
              /\ (IsOld(i) /\ i # MountOf(mounts, ROOT)) => mounts[i].ro = InitialMounts[i].ro
              /\ ~mounts[i].ro => IsTmp(i) \/ IsBind(i) \/ IsProc(i) \/ IsOld(i)

\* The target running with an overlay, the bind mount and /proc in place.
C9_Witness ==
    /\ FsSetupDone /\ cpc = "running"
    /\ \E i \in 1..Len(mounts) : IsOverlay(i)
    /\ \E i \in 1..Len(mounts) : IsBind(i) /\ ~mounts[i].ro

\* The file-system step changes the working directory.
Remapped == inp.mount /\ TmpDirPresent /\ ~TmpDirBeginsWithTmp

\* C10 as claimed: at exec the working directory is /tmp/plz_sandbox if and
\* only if SANDBOX_FS is set and TMP_DIR was present and did not begin with
\* "/tmp/"; otherwise it is the inherited one.
C10_CwdIffRemapped ==
    Execd => /\ (cwd = INNER_TMP) = Remapped
             /\ ~Remapped => cwd = inp.cwd

\* C10 amended: at exec the working directory is /tmp/plz_sandbox if
\* SANDBOX_FS is set and TMP_DIR was present and did not begin with "/tmp/",
\* and in all other cases it is the one inherited from the invoker (which
\* may itself be /tmp/plz_sandbox, as when started inside another sandbox).
C10_CwdAtExec ==
    Execd => cwd = (IF Remapped THEN INNER_TMP ELSE inp.cwd)

\* A remapped run whose invoker was elsewhere.
C10_Witness == Execd /\ Remapped /\ cwd = INNER_TMP /\ inp.cwd # INNER_TMP

\* ---------------------------------------------------------------- C11
BeginsWith(s, p) == Len(s) >= Len(p) /\ SubSeq(s, 1, Len(p)) = p
\* The outer TMP_DIR the invoker set (when TmpDirPresent).
OuterTmp == getenv(inp.env, N_TMP_DIR)
\* s with a leading outer TMP_DIR replaced by /tmp/plz_sandbox.
Reprefixed(s) == INNER_TMP \o SubSeq(s, Len(OuterTmp) + 1, Len(s))

\* C11: in every state, also after a failing step, argv has its original
\* length, argv[1..] are the original ones, and argv[0] is either the
\* original or, when the original began with the outer TMP_DIR, the whole
\* rewritten value /tmp/plz_sandbox ++ rest.
C11_Argv0WholeOrOriginal ==
    /\ Len(argv) = Len(inp.argv)
    /\ \A i \in 2..Len(argv) : argv[i] = inp.argv[i]
    /\ argv # <<>> =>
          \/ argv[1] = inp.argv[1]
          \/ /\ TmpDirPresent /\ BeginsWith(inp.argv[1], OuterTmp)
             /\ argv[1] = Reprefixed(inp.argv[1])

\* The target exec'd under a rewritten argv[0], with an argv[1] that also
\* lies under the outer TMP_DIR and was left alone.
C11_Witness ==
    /\ Execd /\ TmpDirPresent /\ Len(argv) = 2
    /\ argv[1] # inp.argv[1] /\ argv[1] = Reprefixed(inp.argv[1])
    /\ BeginsWith(argv[2], OuterTmp) /\ argv[2] = inp.argv[2]

\* ---------------------------------------------------------------- C12
\* The variables the file-system step sets or removes by name.
IsFixedName(e) ==
    \E n \in {N_TMPDIR, N_TEST_DIR, N_TMP_DIR, N_HOME, N_SANDBOX_DIRS} : IsVar(e, n)

\* 1-based position of the first "=" of an entry, 0 when it has none.
EqualsAt(e) ==
    IF \E i \in 1..Len(e) : e[i] = "="
    THEN CHOOSE i \in 1..Len(e) : e[i] = "=" /\ \A j \in 1..(i - 1) : e[j] # "="
    ELSE 0

\* An entry as the claim has it at exec: the value re-prefixed if it began
\* with the outer TMP_DIR, otherwise the entry as it was.
RewrittenEntry(e) ==
    LET q == EqualsAt(e)
        v == SubSeq(e, q + 1, Len(e))
    IN  IF q > 0 /\ BeginsWith(v, OuterTmp)
        THEN SubSeq(e, 1, q) \o Reprefixed(v)
        ELSE e

ExpectedEnv ==
    {Entry(N_TMPDIR, SLASH_TMP), Entry(N_TEST_DIR, INNER_TMP),
     Entry(N_TMP_DIR, INNER_TMP), Entry(N_HOME, INNER_TMP)}
    \cup {RewrittenEntry(inp.env[i]) :
            i \in {j \in 1..Len(inp.env) : ~IsFixedName(inp.env[j])}}

\* C12: when the target is exec'd after the remapping with TMP_DIR set and
\* not under /tmp/, its environment is the original one with TMPDIR=/tmp,
\* with TEST_DIR, TMP_DIR and HOME equal to /tmp/plz_sandbox, without
\* SANDBOX_DIRS, with every other value that began with the outer TMP_DIR
\* re-prefixed, and with everything else unchanged.
C12_EnvAtExec ==
    (Execd /\ Remapped) =>
        /\ {env[i] : i \in 1..Len(env)} = ExpectedEnv
        /\ Len(env) = Cardinality(ExpectedEnv)

\* ---------------------------------------------------------------- C13
\* The calls of mount_tmp.
FsStepNames ==
    {"remount_private", "mount_tmp", "setenv_TMPDIR", "mount_hidden", "mkdir",
     "bind_mount", "change_env_vars", "setenv_dirs", "remount_ro", "exec_name", "chdir"}

Skipping == prog = "sandbox_c" /\ inp.mount /\ TmpDirBeginsWithTmp

NoFsStep == \A i \in 1..Len(ops) : ops[i].op \notin FsStepNames

SkipMessage == "Not mounting tmpfs on /tmp since TMP_DIR is a subdir"

\* C13 as claimed: with SANDBOX_FS set and TMP_DIR beginning with "/tmp/"
\* no mount at all is performed (/proc included), and the environment,
\* argv and the working directory stay as they were.
C13_SkipDoesNothing ==
    Skipping =>
        /\ NoFsStep /\ ~Did("mount_proc")
        /\ mounts = InitialMounts
        /\ env = inp.env /\ argv = inp.argv /\ cwd = inp.cwd

\* C13 amended: with SANDBOX_FS set and TMP_DIR beginning with "/tmp/",
\* mount_tmp reports success having done nothing (no remount of /, no tmpfs
\* on /tmp, no overlay, no bind mount, no change to the environment, argv[0]
\* or the working directory); the child goes on to mount a fresh /proc,
\* which is then the only mount made, and from there to the remaining steps
\* and exec.
C13_SkipMountsOnlyProc ==
    Skipping =>
        /\ NoFsStep
        /\ env = inp.env /\ argv = inp.argv /\ cwd = inp.cwd
        /\ IF Did("mount_proc")
           THEN /\ Len(mounts) = Len(InitialMounts) + 1
                /\ SubSeq(mounts, 1, Len(InitialMounts)) = InitialMounts
                /\ mounts[Len(mounts)].fstype = "proc"
                /\ mounts[Len(mounts)].target = SLASH_PROC
           ELSE mounts = InitialMounts
        /\ Said(SkipMessage) /\ ops[Len(ops)] = Op("gid_map", "ok") =>
              cpc \in {"mount_proc", "signalled"}
        /\ cpc \in {"lo_up", "add_local_ip", "default_gateway", "prctl", "execvp",
                     "running"} => Said(SkipMessage) /\ Did("mount_proc")

\* The target running after a skipped remapping, /proc mounted.
C13_Witness ==
    /\ Skipping /\ cpc = "running" /\ Said(SkipMessage)
    /\ Did("mount_proc") /\ env = inp.env /\ Len(mounts) = Len(InitialMounts) + 1

\* ---------------------------------------------------------------- C14
\* The value of SANDBOX_DIRS the invoker set (empty when absent).
DirsValue ==
    IF \E i \in 1..Len(inp.env) : IsVar(inp.env[i], N_SANDBOX_DIRS)
    THEN getenv(inp.env, N_SANDBOX_DIRS) ELSE <<>>

\* The non-empty fields of DirsValue: the maximal runs without a comma, as
\* pairs of first and last position.
Runs ==
    {r \in (1..Len(DirsValue)) \X (1..Len(DirsValue)) :
        /\ r[1] <= r[2]
        /\ \A i \in r[1]..r[2] : DirsValue[i] # ","
        /\ r[1] = 1 \/ DirsValue[r[1] - 1] = ","
        /\ r[2] = Len(DirsValue) \/ DirsValue[r[2] + 1] = ","}

\* The k-th field from the left.
Field(k) ==
    LET r == CHOOSE x \in Runs : Cardinality({y \in Runs : y[1] < x[1]}) = k - 1
    IN  SubSeq(DirsValue, r[1], r[2])

\* The outcomes of the overlay mounts attempted so far, in order.
HiddenOps == SelectSeq(ops, LAMBDA o : o.op = "mount_hidden")
\* The overlays in the mount table, in mount order.
Overlays == SelectSeq(SubSeq(mounts, Len(InitialMounts) + 2, Len(mounts)),
                      LAMBDA m : m.fstype = "tmpfs")
\* The fields whose mount succeeded, in order.
RECURSIVE MountedFields(_)
MountedFields(k) ==
    IF k = 0 THEN <<>>
    ELSE MountedFields(k - 1)
         \o (IF HiddenOps[k].res = "ok" THEN <<Field(k)>> ELSE <<>>)

\* C14: the overlay mounts attempted are, in order, those of the non-empty
\* comma-separated fields of SANDBOX_DIRS from the left; each that succeeded
\* is a read-only tmpfs on its field; after a failure with ENOENT or ENOTDIR
\* the child is still at work and the next field is tried; any other failure
\* is the last thing the child does before exiting with status 1; and once
\* the loop is over every field has been tried.
C14_HiddenDirs ==
    prog = "sandbox_c" =>
        /\ Len(HiddenOps) <= Cardinality(Runs)
        /\ Len(Overlays) = Len(MountedFields(Len(HiddenOps)))
        /\ \A k \in 1..Len(Overlays) :
              Overlays[k].target = MountedFields(Len(HiddenOps))[k] /\ Overlays[k].ro
        /\ \A i \in 1..Len(ops) :
              /\ (ops[i].op = "mount_hidden" /\ ops[i].res = "err") => ChildAbortedAt(i)
              /\ (ops[i].op = "mount_hidden" /\ ops[i].res = "skip" /\ i = Len(ops)) =>
                    /\ cpc \in {"mt_dirs", "mt_mkdir", "mount_proc", "signalled"}
                    /\ childStatus \in {-1} \cup SignalStatuses
                    /\ Said("Not mounting over it since it isn't a directory")
        /\ cpc \in {"mt_mkdir", "mt_bind", "mt_setenv3", "mt_remount_ro", "mt_chdir",
                     "running"} /\ inp.mount /\ ~TmpDirBeginsWithTmp =>
              Len(HiddenOps) = Cardinality(Runs)
        /\ (cpc = "exited" /\ Did("execvp")) =>
              \A i \in 1..Len(ops) : ops[i].res # "err"

\* SANDBOX_DIRS = "/n,,/e": /n was not a directory, /e is hidden, and the
\* target runs.
C14_Witness ==
    /\ cpc = "running" /\ DirsValue = DIRS_TWO
    /\ Len(HiddenOps) = 2 /\ HiddenOps[1].res = "skip" /\ HiddenOps[2].res = "ok"
    /\ Len(Overlays) = 1 /\ Overlays[1].target = DIRS_ONE

\* ---------------------------------------------------------------- C15
\* C15: whenever the target is exec'd with SANDBOX_NET set, lo is up, the
\* address 10.1.1.1/8 is assigned and the default route is installed; a
\* refusal of any of the three, a rejected netlink request included, keeps
\* the target from being exec'd.
C15_NetworkCompleteAtExec ==
    (Execd /\ inp.net) => netcfg.lo_up /\ netcfg.addr /\ netcfg.route

\* ---------------------------------------------------------------- C16
\* C16: once the parent has been killed between the clone and the end of
\* its waitpid, the child, in setup or running the target, has been sent
\* SIGKILL and is gone; no child is left at work without a parent.
C16_NoOrphan ==
    (prog = "sandbox_c" /\ ppc = "killed") => cpc \in {"exited", "signalled"}

\* ---------------------------------------------------------------- C17
\* The variable is set to exactly "1" in the invoker's environment.
ShareIs1(name) ==
    /\ \E i \in 1..Len(inp.env) : IsVar(inp.env[i], name)
    /\ getenv(inp.env, name) = <<"1">>

\* C17: the front end leaves the invoker's network namespace iff
\* SHARE_NETWORK is not "1", and its mount namespace iff SHARE_MOUNT is not
\* "1"; with SHARE_MOUNT=1 nothing is mounted.
C17_FlagsFromEnvironment ==
    (prog = "main_c" /\ Did("unshare")) =>
        /\ ("net" \in pns) = ~ShareIs1(N_SHARE_NETWORK)
        /\ ("mnt" \in pns) = ~ShareIs1(N_SHARE_MOUNT)
        /\ ShareIs1(N_SHARE_MOUNT) => mounts = InitialMounts

\* ---------------------------------------------------------------- C18
Nonet == prog = "sandbox_c" /\ inp.front = "nonet"

NoCommand == inp.front \in {"nonet", "main"} /\ inp.argv = <<>>

\* C19: a front end started without a command prints its usage message and
\* ends with status 1; it creates no namespace and no child, and execs
\* nothing.
C19_UsageExitsOne ==
    (NoCommand /\ ppc # "main") =>
        /\ ppc = "returned" /\ result = 1
        /\ \/ inp.front = "nonet" /\ Said("Usage: nonet_sandbox command args...")
           \/ inp.front = "main" /\ Said("Usage: plz_sandbox command args...")
        /\ cloneFlags = {} /\ pns = {} /\ cns = {} /\ cpc = "none"
        /\ ops = <<>> /\ mounts = InitialMounts

\* nonet started without a command, its usage message written.
C19_Witness ==
    /\ NoCommand /\ inp.front = "nonet" /\ ppc = "returned" /\ result = 1
    /\ Len(stderr) = 3

\* ---------------------------------------------------------------- C20
\* C20: if the stack mapping or the clone fails, contain has written a
\* diagnostic and returned 1; there is no child, no setup step was made and
\* waitpid was not called (contain waits only when a child exists).
C20_NoChildNoWait ==
    prog = "sandbox_c" =>
        /\ (Said("mmap") \/ Said("clone")) =>
              /\ ppc = "returned" /\ result = 1
              /\ cpc = "none" /\ cns = {} /\ ops = <<>> /\ childStatus = -1
              /\ ~Said("waitpid failed") /\ status = 0
        /\ ppc \in {"waitpid", "killed", "signalled"} => cpc # "none"
        /\ (ppc = "returned" /\ cpc = "none" /\ ~NoCommand) =>
              result = 1 /\ (Said("mmap") \/ Said("clone"))

\* clone(2) refused: the hint about user namespaces is out and contain has
\* returned.
C20_Witness ==
    /\ prog = "sandbox_c" /\ ppc = "returned" /\ cloneFlags # {} /\ cpc = "none"
    /\ Said("clone") /\ Said("requires support for user namespaces")

\* ---------------------------------------------------------------- C21
\* The diagnostics that name a failing setup operation.
StepDiagnostics(name) ==
    CASE name = "deny_groups" -> {"fopen /proc/self/setgroups", "fputs", "fclose"}
      [] name \in {"uid_map", "gid_map"} -> {"fopen", "fprintf", "fclose"}
      [] name = "remount_private" -> {"remount"}
      [] name = "mount_tmp" -> {"mount"}
      [] name \in {"setenv_TMPDIR", "setenv_dirs"} -> {"setenv"}
      [] name = "mount_hidden" -> {"mount tmpfs"}
      [] name = "mkdir" -> {"mkdir /tmp/plz_sandbox"}
      [] name = "bind_mount" -> {"bind mount"}
      [] name = "remount_ro" -> {"remount ro"}
      [] name = "chdir" -> {"chdir"}
      [] name = "mount_proc" -> {"mount proc"}
      [] name = "lo_up" -> {"socket", "SIOCGIFFLAGS", "SIOCSIFFLAGS"}
      [] name = "add_local_ip" -> {"socket", "bind", "send"}
      [] name = "default_gateway" -> {"socket", "SIOCADDRT"}
      [] name = "prctl" -> {"failed to set PDEATHSIG"}
      [] name = "execvp" -> {"exec"}
      [] OTHER -> {}

\* C21: whenever a setup operation or the exec has failed in the child, a
\* diagnostic naming that operation has been written to stderr; the final
\* chdir and the close of the setgroups file are no exception.
C21_EveryFailureReported ==
    prog = "sandbox_c" =>
        \A i \in 1..Len(ops) :
            ops[i].res = "err" =>
                \E j \in 1..Len(stderr) : stderr[j] \in StepDiagnostics(ops[i].op)

\* ------------------------------------------------------ C22 .. C25
\* The characters of s from 0-based position off on, at most n of them.
Window(s, off, n) ==
    SubSeq(s, off + 1, IF off + n <= Len(s) THEN off + n ELSE Len(s))

\* old occurs in s at position off.
OccursAt(s, old, off) == off + Len(old) <= Len(s) /\ Window(s, off, Len(old)) = old

PathCallDone == call.fn \in {"change_path", "exec_name"} /\ call.done

\* C22: if the characters of s at position off, len(old) of them, are not
\* old, change_path(s, old, new, off) is s; exec_name is this at offset 0.
C22_NoMatchIsIdentity ==
    (PathCallDone /\ Window(call.s, call.off, Len(call.old)) # call.old) =>
        call.out = call.s

\* old occurs in s, but not at the offset asked for.
C22_Witness ==
    /\ PathCallDone /\ call.fn = "change_path" /\ call.off > 0 /\ call.old # <<>>
    /\ ~OccursAt(call.s, call.old, call.off) /\ OccursAt(call.s, call.old, 0)
    /\ call.out = call.s /\ call.new # call.old

\* C23: if old occurs in s at position off, the result is
\* s[0:off] ++ new ++ s[off+len(old):]: its length is
\* len(s) - len(old) + len(new), what lies before off and after the window
\* is kept, and with old = new the result is s.
C23_MatchSubstitutes ==
    (PathCallDone /\ OccursAt(call.s, call.old, call.off)) =>
        /\ call.out = SubSeq(call.s, 1, call.off) \o call.new
                       \o SubSeq(call.s, call.off + Len(call.old) + 1, Len(call.s))
        /\ Len(call.out) = Len(call.s) - Len(call.old) + Len(call.new)
        /\ call.old = call.new => call.out = call.s

\* A longer new directory put in after a kept prefix and before a kept
\* rest.
C23_Witness ==
    /\ PathCallDone /\ call.off > 0 /\ OccursAt(call.s, call.old, call.off)
    /\ Len(call.new) > Len(call.old) /\ call.old # <<>>
    /\ call.off + Len(call.old) < Len(call.s)
    /\ Len(call.out) = Len(call.s) + 1

\* sub occurs somewhere in s.
Occurs(s, sub) == \E off \in 0..Len(s) : OccursAt(s, sub, off)

\* What is left of s after the prefix a.
Suffix(s, a) == SubSeq(s, Len(a) + 1, Len(s))

\* C24: when A is a prefix of s and neither A nor B occurs in what follows
\* A in s, rewriting A to B at offset 0 and then B to A gives s back.
C24_RoundTrip ==
    (call.fn = "round_trip" /\ call.done /\ OccursAt(call.s, call.old, 0)
     /\ ~Occurs(Suffix(call.s, call.old), call.old)
     /\ ~Occurs(Suffix(call.s, call.old), call.new)) =>
        call.out = call.s

\* A round trip between two different directories, with something after
\* the prefix.
C24_Witness ==
    /\ call.fn = "round_trip" /\ call.done /\ OccursAt(call.s, call.old, 0)
    /\ call.old # call.new /\ Len(call.new) > Len(call.old)
    /\ Suffix(call.s, call.old) # <<>>
    /\ ~Occurs(Suffix(call.s, call.old), call.old)
    /\ ~Occurs(Suffix(call.s, call.old), call.new)
    /\ call.out = call.s

\* An entry as C25 has it afterwards.
EntryAfter(e, old, new) ==
    LET q == EqualsAt(e)
        v == SubSeq(e, q + 1, Len(e))
    IN  IF q > 0 /\ BeginsWith(v, old)
        THEN SubSeq(e, 1, q) \o new \o SubSeq(v, Len(old) + 1, Len(v))
        ELSE e

\* C25: change_env_vars keeps the number and the order of the entries; an
\* entry with an "=" keeps everything up to its first "=" and has its value
\* re-prefixed if the value starts with old_dir; an entry without "=" is
\* left as it was.
C25_EnvRewriter ==
    (call.fn = "change_env_vars" /\ call.done) =>
        /\ Len(call.out) = Len(call.env)
        /\ \A i \in 1..Len(call.env) :
              /\ call.out[i] = EntryAfter(call.env[i], call.old, call.new)
              /\ EqualsAt(call.env[i]) = 0 => call.out[i] = call.env[i]
              /\ EqualsAt(call.env[i]) > 0 =>
                    SubSeq(call.out[i], 1, EqualsAt(call.env[i]))
                        = SubSeq(call.env[i], 1, EqualsAt(call.env[i]))

\* An array whose first entry is rewritten and whose second, without "=",
\* begins with old_dir and is kept.
C25_Witness ==
    /\ call.fn = "change_env_vars" /\ call.done /\ Len(call.env) = 2
    /\ call.old = <<"/">> /\ call.new = <<"a", "a">>
    /\ call.env[1] = <<"a", "=", "/", "a">> /\ call.out[1] = <<"a", "=", "a", "a", "a">>
    /\ call.env[2] = <<"/", "a">> /\ call.out[2] = call.env[2]

\* ------------------------------------------------------------- C26
\* The call at position i of the history has a successful call of the
\* given name before it.
Before(i, name) == \E j \in 1..(i - 1) : ops[j] = Op(name, "ok")

MountNetExecSteps ==
    {"remount_private", "mount_tmp", "mount_hidden", "bind_mount", "remount_ro",
     "mount_proc", "lo_up", "add_local_ip", "default_gateway", "execvp"}

\* C26: "deny" has been written to setgroups with success before gid_map is
\* written, uid_map is written before gid_map, and both maps have been
\* written with success before any mount, network step or exec is
\* attempted.
C26_IdMappingOrder ==
    /\ \A i \in 1..Len(ops) :
          /\ ops[i].op = "gid_map" => Before(i, "deny_groups") /\ Before(i, "uid_map")
          /\ ops[i].op \in MountNetExecSteps => Before(i, "uid_map") /\ Before(i, "gid_map")
    /\ idmaps.gid_map # <<>> => idmaps.setgroups = "deny" /\ idmaps.uid_map # <<>>
    /\ (mounts # InitialMounts \/ netcfg.lo_up) => idmaps.gid_map # <<>>

\* A child that wrote both maps, mounted, configured the network and
\* reached exec.
C26_Witness ==
    /\ Execd /\ Did("gid_map") /\ Did("bind_mount") /\ Did("default_gateway")
    /\ idmaps.setgroups = "deny"

\* ------------------------------------------------------------- C27
IsTmpfsOrBind(m) == m.fstype \in {"tmpfs", "bind"}

FsOpNames == FsStepNames \cup {"mount_proc"}
NetOpNames == {"lo_up", "add_local_ip", "default_gateway"}

\* The names of the calls of a kind made so far, in order.
NamesOf(kind) ==
    LET sel == SelectSeq(ops, LAMBDA o : o.op \in kind)
    IN  [i \in 1..Len(sel) |-> sel[i].op]

IsPrefixOf(a, b) == Len(a) <= Len(b) /\ SubSeq(b, 1, Len(a)) = a

\* The file-system calls of a run without failure: a function of the FS
\* flag and of the invoker's environment, not of the NET flag.
ExpectedFsOps ==
    IF ~inp.mount THEN <<>>
    ELSE IF TmpDirBeginsWithTmp THEN <<"mount_proc">>
    ELSE <<"remount_private", "mount_tmp", "setenv_TMPDIR">>
         \o [i \in 1..Cardinality(Runs) |-> "mount_hidden"]
         \o (IF TmpDirPresent
             THEN <<"mkdir", "bind_mount", "change_env_vars", "setenv_dirs",
                    "remount_ro", "exec_name", "chdir">>
             ELSE <<>>)
         \o <<"mount_proc">>

\* The network calls of a run without failure: a function of the NET flag
\* alone.
ExpectedNetOps ==
    IF inp.net THEN <<"lo_up", "add_local_ip", "default_gateway">> ELSE <<>>

NoFailure == \A i \in 1..Len(ops) : ops[i].res # "err"

\* C28: while no step fails, the file-system calls made are the same
\* sequence whatever the NET flag is, and the network calls the same
\* sequence whatever the FS flag is; with FS clear there is no mount,
\* environment change, argv rewrite or chdir, and with NET clear no network
\* call.
C28_FsAndNetIndependent ==
    prog = "sandbox_c" =>
        /\ NoFailure =>
              /\ IsPrefixOf(NamesOf(FsOpNames), ExpectedFsOps)
              /\ IsPrefixOf(NamesOf(NetOpNames), ExpectedNetOps)
        /\ (NoFailure /\ Did("execvp")) =>
              /\ NamesOf(FsOpNames) = ExpectedFsOps
              /\ NamesOf(NetOpNames) = ExpectedNetOps
        /\ ~inp.mount =>
              /\ NamesOf(FsOpNames) = <<>> /\ mounts = InitialMounts
              /\ env = inp.env /\ argv = inp.argv /\ cwd = inp.cwd
        /\ ~inp.net =>
              /\ NamesOf(NetOpNames) = <<>>
              /\ netcfg = [lo_up |-> FALSE, addr |-> FALSE, route |-> FALSE]

\* The whole file-system setup, overlays included, done without the
\* network and the target started.
C28_Witness ==
    /\ Execd /\ NoFailure /\ inp.mount /\ ~inp.net
    /\ Len(NamesOf(FsOpNames)) > 11 /\ NamesOf(NetOpNames) = <<>>
    /\ mounts # InitialMounts /\ cwd = INNER_TMP

\* ------------------------------------------------------------- C29
\* Long division of an id by ten: quotient and remainder.
IdDivTen(id) ==
    LET low == (id.hi % 10) * 65536 + id.lo
    IN  [q |-> Id(id.hi \div 10, low \div 10), r |-> low % 10]

\* The id in decimal, without sign.
RECURSIVE UnsignedDecimal(_)
UnsignedDecimal(id) ==
    IF id.hi = 0 /\ id.lo < 10 THEN <<DigitChar(id.lo)>>
    ELSE UnsignedDecimal(IdDivTen(id).q) \o <<DigitChar(IdDivTen(id).r)>>

IdentityLine(id) ==
    UnsignedDecimal(id) \o <<" ">> \o UnsignedDecimal(id) \o <<" ", "1", "\n">>

\* C29: whatever the uid and gid, of all that 32 bits without sign hold,
\* the one line printed to uid_map and to gid_map is the id in unsigned
\* decimal, twice, then 1.
C29_MapLineUnsigned ==
    /\ Len(idmaps.uid_map) <= 1 /\ Len(idmaps.gid_map) <= 1
    /\ \A i \in 1..Len(idmaps.uid_map) : idmaps.uid_map[i] = IdentityLine(inp.uid)
    /\ \A i \in 1..Len(idmaps.gid_map) : idmaps.gid_map[i] = IdentityLine(inp.gid)

\* What does hold: ids below 2^31 are printed as claimed.
C29_SmallIdsUnsigned ==
    /\ (inp.uid.hi < 32768 /\ idmaps.uid_map # <<>>) =>
          idmaps.uid_map = <<IdentityLine(inp.uid)>>
    /\ (inp.gid.hi < 32768 /\ idmaps.gid_map # <<>>) =>
          idmaps.gid_map = <<IdentityLine(inp.gid)>>

\* ------------------------------------------------------------- C30
\* TMP_DIR is set and does not begin with "/tmp/", and SANDBOX_FS is set.
Remapping == prog = "sandbox_c" /\ inp.mount /\ TmpDirPresent /\ ~TmpDirBeginsWithTmp

\* C30: with SANDBOX_FS set and TMP_DIR not beginning with "/tmp/", the
\* bind mount on /tmp/plz_sandbox shows the host directory TMP_DIR named
\* when the sandbox was entered, whatever SANDBOX_DIRS holds: its source
\* lies in the mount that held TMP_DIR then, not in the tmpfs on /tmp or in
\* an overlay.
C30_BindShowsHostDir ==
    Remapping =>
        \A k \in 1..Len(mounts) :
            mounts[k].fstype = "bind" =>
                /\ mounts[k].target = INNER_TMP /\ mounts[k].src = OuterTmp
                /\ mounts[k].backing = MountOf(InitialMounts, OuterTmp)

\* The same for a TMP_DIR other than /tmp: refuted by an overlay on it.
C30_BindShowsHostDirOffTmp ==
    (Remapping /\ OuterTmp # SLASH_TMP) =>
        \A k \in 1..Len(mounts) :
            mounts[k].fstype = "bind" =>
                mounts[k].backing = MountOf(InitialMounts, OuterTmp)

\* What does hold: the host directory is shown when TMP_DIR is neither /tmp
\* nor under a SANDBOX_DIRS entry that was mounted over.
C30_BindShowsUnhiddenDir ==
    (Remapping /\ OuterTmp # SLASH_TMP) =>
        \A k \in 1..Len(mounts) :
            (/\ mounts[k].fstype = "bind"
             /\ \A j \in 1..(k - 1) :
                   mounts[j].fstype = "tmpfs" => ~Under(OuterTmp, mounts[j].target)) =>
                mounts[k].backing = MountOf(InitialMounts, OuterTmp)

\* ------------------------------------------------------------- C31
ContainReturned == prog = "please_contain" /\ ppc = "returned"

\* C31: clone_and_contain returns 0 only if the cloned child exited
\* normally with status 0; a child ended by a signal, a failed clone and a
\* failed waitpid each give a result other than 0.
C31_ZeroOnlyForSuccess ==
    (ContainReturned /\ result = 0) =>
        /\ cpc = "exited" /\ status = childStatus
        /\ childStatus % 128 = 0 /\ childStatus \div 256 = 0

\* What does hold: a failed clone and a failed waitpid give a result other
\* than 0, and so does a child that exited with a status other than 0.
C31_ZeroOnlyForSuccessOrSignal ==
    (ContainReturned /\ result = 0) =>
        /\ cpc \in {"exited", "signalled"} /\ status = childStatus
        /\ cpc = "exited" => childStatus = 0
        /\ cpc = "signalled" => childStatus \in SignalStatuses

\* ------------------------------------------------------------- C32
DropRootSteps ==
    <<"set_dumpable", "get_dumpable", "getresgid", "setresgid", "getresuid", "setresuid">>

\* The child holds no more than its real ids, and is not dumpable.
Dropped ==
    /\ creds.dumpable = 0
    /\ creds.rgid = inp.creds.rgid /\ creds.egid = creds.rgid /\ creds.sgid = creds.rgid
    /\ creds.ruid = inp.creds.ruid /\ creds.euid = creds.ruid /\ creds.suid = creds.ruid

\* C32: execvp is reached only after drop_root has succeeded: the process
\* was made non-dumpable, then its real, effective and saved gid were set
\* to the real gid, then its uids to the real uid; and when one of those
\* steps fails the child exits with 1 and execvp is not called.
C32_ExecOnlyAfterDropRoot ==
    prog = "please_contain" =>
        /\ \A i \in 1..Len(ops) :
              /\ ops[i].op = "execvp" =>
                    /\ i = Len(DropRootSteps) + 1
                    /\ \A k \in 1..Len(DropRootSteps) : ops[k] = Op(DropRootSteps[k], "ok")
              /\ (ops[i].res = "err" /\ ops[i].op # "execvp") =>
                    /\ i = Len(ops)
                    /\ cpc = "exited" /\ childStatus = W_EXITCODE(1, 0)
        /\ cpc \in {"exec_child", "running"} => Dropped
        /\ cpc \in {"getresuid", "setresuid"} =>
              creds.egid = creds.rgid /\ creds.sgid = creds.rgid

\* A user's target running from a binary that is setuid and setgid root,
\* with only the user's ids.
C32_Witness ==
    /\ prog = "please_contain" /\ cpc = "running" /\ Did("execvp")
    /\ inp.creds.euid = 0 /\ inp.creds.ruid # 0 /\ inp.creds.egid # inp.creds.rgid
    /\ Dropped /\ creds.euid = 1000 /\ creds.egid = 100

====
